---- MODULE Spec2Model ----
(***************************************************************************)
(* A model of the vehicle-catalogue document processor: the paragraph and  *)
(* table scan of DocProcessor.process, the table grid reader and row       *)
(* extractor of TableExtractor, the batch-number extraction, the           *)
(* consistency validator and the directory driver process_directory.       *)
(*                                                                         *)
(* Text.  A Python str is a sequence of characters; a character is a       *)
(* one-token string.  ASCII characters stand for themselves; each CJK      *)
(* character is written as an ASCII token:                                 *)
(*   di 第   pi 批   ling 零  yi 一  er 二  san 三  si 四  wu 五  liu 六      *)
(*   qi 七  ba 八  jiu 九  shi 十  bai 百                                    *)
(*   jie 节  neng 能  xing 型  qi4 汽  che 车  xin 新  yuan 源               *)
(*   LP （   RP ）   FC ， (full-width comma)   FS ； (full-width semicolon)  *)
(*   xu 序  hao 号  qi3 企  ye 业  ming 名  cheng 称  pin 品  pai 牌          *)
(*   shi4 式  dang 档  wei 位  shu 数  bian 变  su 速  qi5 器                *)
(*   he 合  ji 计  zong 总  cheng2 乘  yong 用  huo 货  guan 关  yu 于        *)
(*   xiang 项  mu 目  lu 录                                                *)
(*                                                                         *)
(* Values.  A Python value that may be None, a str or an int is a tagged   *)
(* record: NoneV, StrV(s) or IntV(n).  A dict is a function from keys      *)
(* (text) to values.  An exception raised by a pure function is returned   *)
(* as the sentinel KeyError or ValueError.                                 *)
(***************************************************************************)
EXTENDS Integers, Sequences, FiniteSets, TLC

\* ------------------------------------------------------------------------
\* Bounds of the model
\* ------------------------------------------------------------------------

\* longest document (number of content blocks) that is scanned
MaxBlocks == 3

\* longest list of matched files given to process_directory
MaxFiles == 3

\* largest number of records in a list given to verify_batch_consistency
MaxCars == 4

\* largest declared count given to verify_batch_consistency
MaxDeclared == 5

\* ------------------------------------------------------------------------
\* Python values
\* ------------------------------------------------------------------------

NoneV == [t |-> "none", v |-> <<>>, n |-> 0]

StrV(s) == [t |-> "str", v |-> s, n |-> 0]

IntV(n) == [t |-> "int", v |-> <<>>, n |-> n]

IsStr(x) == x.t = "str"

\* Python truth value of None, a str or an int
Truthy(x) ==
    CASE x.t = "none" -> FALSE
      [] x.t = "str" -> x.v # <<>>
      [] x.t = "int" -> x.n # 0

KeyError == <<"!KeyError">>

ValueError == <<"!ValueError">>

IsError(r) == r = KeyError \/ r = ValueError

\* ------------------------------------------------------------------------
\* Python str operations
\* ------------------------------------------------------------------------

Whitespace == {" ", "\t"}

AsciiDigits == {"0", "1", "2", "3", "4", "5", "6", "7", "8", "9"}

RECURSIVE lstrip(_)
lstrip(s) ==
    IF s # <<>> /\ Head(s) \in Whitespace THEN lstrip(Tail(s)) ELSE s

RECURSIVE rstrip(_)
rstrip(s) ==
    IF s # <<>> /\ s[Len(s)] \in Whitespace
    THEN rstrip(SubSeq(s, 1, Len(s) - 1))
    ELSE s

\* str.strip()
strip(s) == rstrip(lstrip(s))

\* str.startswith(p)
startswith(s, p) == Len(s) >= Len(p) /\ SubSeq(s, 1, Len(p)) = p

\* p in s, for a str p
Contains(s, p) ==
    \E i \in 1..(Len(s) - Len(p) + 1) : SubSeq(s, i, i + Len(p) - 1) = p

\* c in s, for a single character c
HasChar(s, c) == \E i \in 1..Len(s) : s[i] = c

\* str.isdigit()
isdigit(s) == s # <<>> /\ \A i \in 1..Len(s) : s[i] \in AsciiDigits

\* str.split(sep) for a one-character separator: a list of parts
RECURSIVE split(_, _)
split(s, sep) ==
    IF ~HasChar(s, sep) THEN << s >>
    ELSE LET i == CHOOSE k \in 1..Len(s) :
                      s[k] = sep /\ \A j \in 1..(k - 1) : s[j] # sep
         IN  << SubSeq(s, 1, i - 1) >> \o split(SubSeq(s, i + 1, Len(s)), sep)

DigitValue(c) ==
    CASE c = "0" -> 0 [] c = "1" -> 1 [] c = "2" -> 2 [] c = "3" -> 3
      [] c = "4" -> 4 [] c = "5" -> 5 [] c = "6" -> 6 [] c = "7" -> 7
      [] c = "8" -> 8 [] c = "9" -> 9

DigitChar(d) ==
    CASE d = 0 -> "0" [] d = 1 -> "1" [] d = 2 -> "2" [] d = 3 -> "3"
      [] d = 4 -> "4" [] d = 5 -> "5" [] d = 6 -> "6" [] d = 7 -> "7"
      [] d = 8 -> "8" [] d = 9 -> "9"

\* int(s) for a str of ASCII digits
RECURSIVE ParseInt(_)
ParseInt(s) ==
    IF s = <<>> THEN 0
    ELSE 10 * ParseInt(SubSeq(s, 1, Len(s) - 1)) + DigitValue(s[Len(s)])

\* str(n) for n >= 0
RECURSIVE FormatInt(_)
FormatInt(n) ==
    IF n < 10 THEN << DigitChar(n) >>
    ELSE FormatInt(n \div 10) \o << DigitChar(n % 10) >>

\* ------------------------------------------------------------------------
\* clean_text (src/src/utils/text_processing.py)
\* ------------------------------------------------------------------------

\* WHITESPACE_PATTERN.sub(" ", s): every maximal run of whitespace becomes
\* one space
RECURSIVE CollapseWhitespace(_)
CollapseWhitespace(s) ==
    IF s = <<>> THEN <<>>
    ELSE IF Head(s) \in Whitespace
         THEN << " " >> \o CollapseWhitespace(lstrip(s))
         ELSE << Head(s) >> \o CollapseWhitespace(Tail(s))

\* .replace("，", ", ").replace("；", "; ")
RECURSIVE ReplaceFullWidth(_)
ReplaceFullWidth(s) ==
    IF s = <<>> THEN <<>>
    ELSE (CASE Head(s) = "FC" -> << ",", " " >>
            [] Head(s) = "FS" -> << ";", " " >>
            [] OTHER -> << Head(s) >>) \o ReplaceFullWidth(Tail(s))

clean_text(text) == ReplaceFullWidth(CollapseWhitespace(strip(text)))

\* ------------------------------------------------------------------------
\* cn_to_arabic, extract_batch_number
\* (src/doc_processor/utils/chinese_utils.py)
\* ------------------------------------------------------------------------

CnNumeralChars ==
    {"yi", "er", "san", "si", "wu", "liu", "qi", "ba", "jiu", "shi", "bai", "ling"}

\* CN_NUMS[c] for a key c
CN_NUMS(c) ==
    CASE c = "ling" -> << "0" >> [] c = "yi" -> << "1" >> [] c = "er" -> << "2" >>
      [] c = "san" -> << "3" >> [] c = "si" -> << "4" >> [] c = "wu" -> << "5" >>
      [] c = "liu" -> << "6" >> [] c = "qi" -> << "7" >> [] c = "ba" -> << "8" >>
      [] c = "jiu" -> << "9" >> [] c = "shi" -> << "1", "0" >>
      [] c = "bai" -> << "1", "0", "0" >>

\* s is a key of CN_NUMS (a str of exactly one numeral character)
IsCnKey(s) == Len(s) = 1 /\ s[1] \in CnNumeralChars

\* CN_NUMS[s] for a str s: the value, or KeyError
CnLookup(s) == IF IsCnKey(s) THEN CN_NUMS(s[1]) ELSE KeyError

RECURSIVE cn_to_arabic(_)
cn_to_arabic(cn_num) ==
    IF isdigit(cn_num) THEN cn_num
    ELSE IF Len(cn_num) = 1 THEN
        (IF IsCnKey(cn_num) THEN CN_NUMS(cn_num[1]) ELSE cn_num)
    ELSE IF HasChar(cn_num, "bai") THEN
        LET parts == split(cn_num, "bai") IN
        IF ~IsCnKey(parts[1]) THEN KeyError
        ELSE LET hundreds == ParseInt(CN_NUMS(parts[1][1])) IN
             IF parts[2] = <<>> THEN FormatInt(hundreds * 100)
             ELSE IF startswith(parts[2], << "ling" >>) THEN
                 (IF parts[2][Len(parts[2])] \in CnNumeralChars
                  THEN FormatInt(hundreds * 100
                           + ParseInt(CN_NUMS(parts[2][Len(parts[2])])))
                  ELSE KeyError)
             ELSE LET rest == cn_to_arabic(parts[2]) IN
                  IF IsError(rest) THEN rest
                  ELSE IF ~isdigit(rest) THEN ValueError
                  ELSE FormatInt(hundreds * 100 + ParseInt(rest))
    ELSE IF startswith(cn_num, << "shi" >>) THEN
        (IF cn_num[2] \in CnNumeralChars
         THEN << "1" >> \o CN_NUMS(cn_num[2])
         ELSE KeyError)
    ELSE IF HasChar(cn_num, "shi") THEN
        LET parts == split(cn_num, "shi") IN
        IF ~IsCnKey(parts[1]) THEN KeyError
        ELSE IF parts[2] = <<>> THEN CN_NUMS(parts[1][1]) \o << "0" >>
        ELSE IF ~IsCnKey(parts[2]) THEN KeyError
        ELSE CN_NUMS(parts[1][1]) \o CN_NUMS(parts[2][1])
    ELSE cn_num

\* the characters of the class [一二三四五六七八九十百零\d]
BatchClass == CnNumeralChars \cup AsciiDigits

\* the length of the longest run of characters of class cls at s[i..]
RECURSIVE RunLength(_, _, _)
RunLength(s, i, cls) ==
    IF i <= Len(s) /\ s[i] \in cls THEN 1 + RunLength(s, i + 1, cls) ELSE 0

\* BATCH_NUMBER_PATTERN matches at position i: 第, a non-empty run of the
\* class, 批 (批 is not in the class, so only the longest run can match)
BatchMatchAt(s, i) ==
    /\ s[i] = "di"
    /\ LET k == RunLength(s, i + 1, BatchClass) IN
       /\ k >= 1
       /\ i + 1 + k <= Len(s)
       /\ s[i + 1 + k] = "pi"

\* BATCH_NUMBER_PATTERN.search(text) finds a match
BatchPatternMatches(s) == \E i \in 1..Len(s) : BatchMatchAt(s, i)

\* group(1) of the leftmost match
BatchPatternGroup(s) ==
    LET i == CHOOSE k \in 1..Len(s) :
                 BatchMatchAt(s, k) /\ \A j \in 1..(k - 1) : ~BatchMatchAt(s, j)
    IN  SubSeq(s, i + 1, i + RunLength(s, i + 1, BatchClass))

\* group(1) of CHINESE_NUMBER_PATTERN.search(text): the leftmost longest
\* run of CJK numeral characters
ChineseNumberGroup(s) ==
    LET i == CHOOSE k \in 1..Len(s) :
                 s[k] \in CnNumeralChars
                 /\ \A j \in 1..(k - 1) : s[j] \notin CnNumeralChars
    IN  SubSeq(s, i, i + RunLength(s, i, CnNumeralChars) - 1)

\* the fallback branch of extract_batch_number
BatchFallback(text) ==
    IF \E i \in 1..Len(text) : text[i] \in CnNumeralChars
    THEN LET r == cn_to_arabic(ChineseNumberGroup(text)) IN
         IF IsError(r) THEN NoneV ELSE StrV(r)
    ELSE NoneV

extract_batch_number(text) ==
    IF BatchPatternMatches(text)
    THEN LET num == BatchPatternGroup(text) IN
         IF isdigit(num) THEN StrV(num)
         ELSE LET r == cn_to_arabic(num) IN
              IF IsError(r) THEN NoneV ELSE StrV(r)
    ELSE BatchFallback(text)

\* ------------------------------------------------------------------------
\* Field names and fixed texts
\* An ASCII identifier used as a dict key is written as one token.
\* ------------------------------------------------------------------------

K_category == << "category" >>

K_sub_type == << "sub_type" >>

K_energytype == << "energytype" >>

K_batch == << "batch" >>

K_table_id == << "table_id" >>

K_raw_text == << "raw_text" >>

K_vmodel == << "vmodel" >>

\* 序号
H_seq == << "xu", "hao" >>

\* 企业名称
H_company == << "qi3", "ye", "ming", "cheng" >>

\* 品牌
H_brand == << "pin", "pai" >>

\* 型号
H_model == << "xing", "hao" >>

\* 产品型号
H_product_model == << "chan", "pin", "xing", "hao" >>

\* 车辆型号
H_vehicle_model == << "che", "liang", "xing", "hao" >>

\* 通用名称
H_generic_name == << "tong", "yong", "ming", "cheng" >>

\* 商标
H_trademark == << "shang", "biao" >>

\* 生产企业
H_producer == << "sheng", "chan", "qi3", "ye" >>

\* 企业
H_enterprise == << "qi3", "ye" >>

\* 型式
H_type == << "xing", "shi4" >>

\* 档位数
H_gears == << "dang", "wei", "shu" >>

\* 变速器
H_transmission == << "bian", "su", "qi5" >>

\* 合计, 总计
T_heji == << "he", "ji" >>

T_zongji == << "zong", "ji" >>

\* 节能型汽车, 新能源汽车 and the category labels 节能型, 新能源
T_energy_saving_cars == << "jie", "neng", "xing", "qi4", "che" >>

T_new_energy_cars == << "xin", "neng", "yuan", "qi4", "che" >>

C_energy_saving == << "jie", "neng", "xing" >>

C_new_energy == << "xin", "neng", "yuan" >>

\* ------------------------------------------------------------------------
\* TableExtractor (src/src/table/extractor.py)
\* A table is a sequence of rows, a row a sequence of cell texts.
\* ------------------------------------------------------------------------

\* the None returned by _process_data_row
NoRow == << << "!None" >> >>

IsNonBlank(cell) == strip(cell) # <<>>

IsTotalCell(cell) ==
    startswith(strip(cell), T_heji) \/ startswith(strip(cell), T_zongji)

\* any(cell.strip() for cell in row)
AnyNonBlank(row) == \E i \in 1..Len(row) : IsNonBlank(row[i])

\* any(cell.strip().startswith(("合计", "总计")) for cell in row)
AnyTotal(row) == \E i \in 1..Len(row) : IsTotalCell(row[i])

RECURSIVE _process_merged_headers(_)
_process_merged_headers(headers) ==
    IF headers = <<>> THEN <<>>
    ELSE IF Len(headers) >= 2 /\ headers[1] = H_type /\ headers[2] = H_gears
         THEN << H_transmission >>
                  \o _process_merged_headers(SubSeq(headers, 3, Len(headers)))
         ELSE << headers[1] >> \o _process_merged_headers(Tail(headers))

_process_data_row(row, last_company, last_brand) ==
    IF ~AnyNonBlank(row) THEN NoRow
    ELSE IF AnyTotal(row) THEN NoRow
    ELSE [i \in 1..Len(row) |->
             LET value == strip(row[i]) IN
             IF i = 2 /\ value = <<>> THEN last_company
             ELSE IF i = 3 /\ value = <<>> THEN last_brand
             ELSE value]

\* the loop state of extract_table_cells_fast before the first row
GridStart ==
    [rows |-> <<>>, header_processed |-> FALSE,
     last_company |-> <<>>, last_brand |-> <<>>, raised |-> FALSE]

\* one iteration of the loop over w:tr: cells are the texts of the row's
\* cells.  processed_row[1] and processed_row[2] raise IndexError on a
\* retained row of fewer than three cells; the exception ends the loop.
GridRow(g, rawcells) ==
    LET cells == [i \in 1..Len(rawcells) |-> strip(rawcells[i])] IN
    IF g.raised THEN g
    ELSE IF ~g.header_processed
    THEN [g EXCEPT !.rows = Append(@, _process_merged_headers(cells)),
                   !.header_processed = TRUE]
    ELSE LET processed_row ==
                 _process_data_row(cells, g.last_company, g.last_brand) IN
         IF processed_row = NoRow \/ processed_row = <<>> THEN g
         ELSE IF Len(processed_row) < 3 THEN [g EXCEPT !.raised = TRUE]
         ELSE [g EXCEPT
                 !.last_company =
                     IF processed_row[2] # <<>> THEN processed_row[2] ELSE @,
                 !.last_brand =
                     IF processed_row[3] # <<>> THEN processed_row[3] ELSE @,
                 !.rows = Append(@, processed_row)]

RECURSIVE GridLoop(_, _)
GridLoop(g, table) ==
    IF table = <<>> THEN g ELSE GridLoop(GridRow(g, Head(table)), Tail(table))

\* the except branch returns []
extract_table_cells_fast(table) ==
    LET g == GridLoop(GridStart, table) IN
    IF g.raised THEN <<>> ELSE g.rows

\* ------------------------------------------------------------------------
\* dict operations
\* ------------------------------------------------------------------------

EmptyDict == [k \in {} |-> NoneV]

\* d[k] = v
Put(d, k, v) == [x \in DOMAIN d \cup {k} |-> IF x = k THEN v ELSE d[x]]

\* d without the key k (d.pop(k) discards it)
Pop(d, k) == [x \in DOMAIN d \ {k} |-> d[x]]

HasKey(d, k) == k \in DOMAIN d

\* d.update(e)
Update(d, e) ==
    [x \in DOMAIN d \cup DOMAIN e |-> IF x \in DOMAIN e THEN e[x] ELSE d[x]]

\* str(x)
PyStr(x) ==
    CASE x.t = "none" -> << "None" >>
      [] x.t = "str" -> x.v
      [] x.t = "int" -> FormatInt(x.n)

\* sep.join(parts)
RECURSIVE Join(_, _)
Join(parts, sep) ==
    IF parts = <<>> THEN <<>>
    ELSE IF Len(parts) = 1 THEN parts[1]
    ELSE parts[1] \o sep \o Join(Tail(parts), sep)

\* ------------------------------------------------------------------------
\* process_car_info (src/src/utils/validation.py)
\* ------------------------------------------------------------------------

\* model_fields = ["产品型号", "车辆型号", "型号"]
model_fields == << H_product_model, H_vehicle_model, H_model >>

\* field_mapping, in insertion order: <<old_field, new_field>>
field_mapping ==
    << << H_generic_name, H_brand >>, << H_trademark, H_brand >>,
       << H_producer, H_company >>, << H_enterprise, H_company >> >>

\* value and str(value).strip()
IsNonBlankValue(value) == Truthy(value) /\ strip(PyStr(value)) # <<>>

\* the loop over model_fields: <<car_info after the pops, model_values>>
RECURSIVE MergeModelFields(_, _, _)
MergeModelFields(car_info, fields, model_values) ==
    IF fields = <<>> THEN << car_info, model_values >>
    ELSE LET field == Head(fields) IN
         IF HasKey(car_info, field)
         THEN LET value == car_info[field] IN
              MergeModelFields(
                  Pop(car_info, field), Tail(fields),
                  IF IsNonBlankValue(value)
                  THEN Append(model_values, clean_text(PyStr(value)))
                  ELSE model_values)
         ELSE MergeModelFields(car_info, Tail(fields), model_values)

\* the loop over field_mapping.items()
RECURSIVE MapFields(_, _)
MapFields(car_info, mapping) ==
    IF mapping = <<>> THEN car_info
    ELSE LET old_field == Head(mapping)[1]
             new_field == Head(mapping)[2] IN
         IF HasKey(car_info, old_field)
         THEN LET value == car_info[old_field]
                  popped == Pop(car_info, old_field) IN
              MapFields(
                  IF IsNonBlankValue(value)
                  THEN Put(popped, new_field, StrV(clean_text(PyStr(value))))
                  ELSE popped,
                  Tail(mapping))
         ELSE MapFields(car_info, Tail(mapping))

\* the final loop: every str value is cleaned
CleanValues(car_info) ==
    [k \in DOMAIN car_info |->
        IF IsStr(car_info[k]) THEN StrV(clean_text(car_info[k].v))
        ELSE car_info[k]]

process_car_info(car_info, batch_number) ==
    LET with_batch ==
            IF Truthy(batch_number) THEN Put(car_info, K_batch, batch_number)
            ELSE car_info
        merged == MergeModelFields(with_batch, model_fields, <<>>)
        with_model ==
            IF merged[2] # <<>> THEN Put(merged[1], K_vmodel, StrV(merged[2][1]))
            ELSE merged[1]
    IN  CleanValues(MapFields(with_model, field_mapping))

\* ------------------------------------------------------------------------
\* TableExtractor.extract_car_info (src/src/table/extractor.py)
\* ------------------------------------------------------------------------

\* [clean_text(cell) for cell in all_rows[0] if cell]
RECURSIVE CleanHeaders(_)
CleanHeaders(row) ==
    IF row = <<>> THEN <<>>
    ELSE IF Head(row) # <<>>
         THEN << clean_text(Head(row)) >> \o CleanHeaders(Tail(row))
         ELSE CleanHeaders(Tail(row))

\* cells truncated or right-padded with "" to n cells
FitCells(cells, n) ==
    [i \in 1..n |-> IF i <= Len(cells) THEN cells[i] ELSE <<>>]

\* {header: clean_text(str(value)) for header, value in zip(headers, cells)}
\* (a repeated header keeps the value of its last column)
ZipFields(headers, cells) ==
    LET n == IF Len(headers) < Len(cells) THEN Len(headers) ELSE Len(cells) IN
    [h \in {headers[i] : i \in 1..n} |->
        LET last == CHOOSE i \in 1..n :
                        headers[i] = h /\ \A j \in (i + 1)..n : headers[j] # h
        IN  StrV(clean_text(cells[last]))]

base_info(table_index, category, sub_type, batch_number) ==
    [k \in {K_category, K_sub_type, K_energytype, K_batch, K_table_id} |->
        CASE k = K_category -> category
          [] k = K_sub_type -> sub_type
          [] k = K_energytype ->
                 IntV(IF category = StrV(C_energy_saving) THEN 2 ELSE 1)
          [] k = K_batch -> batch_number
          [] k = K_table_id -> IntV(table_index + 1)]

\* the record built from one data row of the grid
RowRecord(headers, row, table_index, category, sub_type, batch_number) ==
    LET cells == FitCells(row, Len(headers))
        raw_text == Join(cells, << " ", "|", " " >>)
        car_info ==
            Update(Put(base_info(table_index, category, sub_type, batch_number),
                       K_raw_text, StrV(raw_text)),
                   ZipFields(headers, cells))
    IN  process_car_info(car_info, batch_number)

\* the loop over the data rows (the chunking only groups the iterations)
RECURSIVE RowRecords(_, _, _, _, _, _)
RowRecords(headers, rows, table_index, category, sub_type, batch_number) ==
    IF rows = <<>> THEN <<>>
    ELSE LET rest == RowRecords(headers, Tail(rows), table_index, category,
                                sub_type, batch_number) IN
         IF ~AnyNonBlank(Head(rows)) THEN rest
         ELSE << RowRecord(headers, Head(rows), table_index, category,
                           sub_type, batch_number) >> \o rest

\* extract_car_info after the cache lookup; table_index counts from 0
extract_car_info(table, table_index, category, sub_type, batch_number) ==
    IF table = <<>> THEN <<>>
    ELSE LET all_rows == extract_table_cells_fast(table) IN
         IF all_rows = <<>> THEN <<>>
         ELSE LET headers == CleanHeaders(all_rows[1]) IN
              IF headers = <<>> THEN <<>>
              ELSE RowRecords(headers, Tail(all_rows), table_index, category,
                              sub_type, batch_number)

\* ------------------------------------------------------------------------
\* verify_batch_consistency (src/src/batch/validator.py)
\* table_counts is a dict keyed by table id: a sequence of <<key, count>>
\* in insertion order
\* ------------------------------------------------------------------------

\* 未知, the key of a record that has no table_id
T_unknown == << "wei4", "zhi" >>

\* car.get("table_id", "未知")
TableIdOf(car) ==
    IF HasKey(car, K_table_id) THEN car[K_table_id] ELSE StrV(T_unknown)

\* table_counts[table_id] = 1 whatever it was: the count of a table is
\* not accumulated
CountUpReset(table_counts, table_id) ==
    IF \E i \in 1..Len(table_counts) : table_counts[i][1] = table_id
    THEN table_counts
    ELSE Append(table_counts, << table_id, 1 >>)

\* the count-up that leaves out a record without a table_id
CountUpKnownOnly(table_counts, table_id) ==
    IF table_id = StrV(T_unknown) THEN table_counts
    ELSE IF \E i \in 1..Len(table_counts) : table_counts[i][1] = table_id
    THEN [i \in 1..Len(table_counts) |->
             IF table_counts[i][1] = table_id
             THEN << table_id, table_counts[i][2] + 1 >>
             ELSE table_counts[i]]
    ELSE Append(table_counts, << table_id, 1 >>)

\* table_counts[table_id] += 1, the key added with 0 when it is new
CountUp(table_counts, table_id) ==
    IF \E i \in 1..Len(table_counts) : table_counts[i][1] = table_id
    THEN [i \in 1..Len(table_counts) |->
             IF table_counts[i][1] = table_id
             THEN << table_id, table_counts[i][2] + 1 >>
             ELSE table_counts[i]]
    ELSE Append(table_counts, << table_id, 1 >>)

\* the loop over cars
RECURSIVE GroupByTable(_, _)
GroupByTable(cars_, table_counts) ==
    IF cars_ = <<>> THEN table_counts
    ELSE GroupByTable(Tail(cars_), CountUp(table_counts, TableIdOf(Head(cars_))))

\* sum(table_counts.values())
RECURSIVE SumCounts(_)
SumCounts(table_counts) ==
    IF table_counts = <<>> THEN 0
    ELSE Head(table_counts)[2] + SumCounts(Tail(table_counts))

\* not batch_number, with None alone taken for a missing batch number
NoBatchOnlyNone(batch_number_) == batch_number_ = NoneV

\* not batch_number
NoBatch(batch_number_) == ~Truthy(batch_number_)

\* the dict returned, as a record
verify_batch_consistency(cars_, batch_number_, declared_count_) ==
    IF NoBatch(batch_number_) THEN [status |-> "no_batch"]
    ELSE LET table_counts == GroupByTable(cars_, <<>>)
             total_extracted_count == SumCounts(table_counts) IN
         IF declared_count_ # NoneV
         THEN IF total_extracted_count = declared_count_.n
              THEN [status |-> "match", batch |-> batch_number_,
                    actual_count |-> total_extracted_count,
                    declared_count |-> declared_count_.n,
                    table_counts |-> table_counts]
              ELSE [status |-> "mismatch", batch |-> batch_number_,
                    actual_count |-> total_extracted_count,
                    declared_count |-> declared_count_.n,
                    table_counts |-> table_counts,
                    difference |-> declared_count_.n - total_extracted_count]
         ELSE LET processed_count == Len(cars_) IN
              IF total_extracted_count = processed_count
              THEN [status |-> "internal_match", batch |-> batch_number_,
                    actual_count |-> total_extracted_count,
                    processed_count |-> processed_count,
                    table_counts |-> table_counts]
              ELSE [status |-> "internal_mismatch", batch |-> batch_number_,
                    actual_count |-> total_extracted_count,
                    processed_count |-> processed_count,
                    table_counts |-> table_counts,
                    difference |-> total_extracted_count - processed_count]

\* ------------------------------------------------------------------------
\* Documents
\* A document body is a sequence of content blocks: a paragraph with its
\* text, or a table with its rows of cell texts.  A table block also says
\* whether the document library raises while the table is read
\* (raises = TRUE), which makes extract_car_info raise for that table.
\* ------------------------------------------------------------------------

Para(text) == [kind |-> "p", text |-> text, rows |-> <<>>, raises |-> FALSE]

Tbl(rows, raises) ==
    [kind |-> "tbl", text |-> <<>>, rows |-> rows, raises |-> raises]

IsPara(b) == b.kind = "p"

IsTbl(b) == b.kind = "tbl"

\* the blocks of one kind, in document order (doc.paragraphs, doc.tables)
RECURSIVE SelectKind(_, _)
SelectKind(blocks, kind) ==
    IF blocks = <<>> THEN <<>>
    ELSE IF Head(blocks).kind = kind
         THEN << Head(blocks) >> \o SelectKind(Tail(blocks), kind)
         ELSE SelectKind(Tail(blocks), kind)

\* s[:n]
Prefix(s, n) == SubSeq(s, 1, IF Len(s) < n THEN Len(s) ELSE n)

\* s[-n:]
Suffix(s, n) == SubSeq(s, IF Len(s) < n THEN 1 ELSE Len(s) - n + 1, Len(s))

\* ------------------------------------------------------------------------
\* extract_declared_count (src/src/document/parser.py)
\* ------------------------------------------------------------------------

max_paragraphs_to_search == 30

max_tables_to_search == 5

\* 共计
T_gongji == << "gong", "ji" >>

\* the alternatives of (共计|总计|合计)
TotalWords == {T_gongji, T_zongji, T_heji}

\* the alternatives of (款|个|种|辆|台|项)
UnitChars == {"kuan", "ge", "zhong", "liang", "tai", "xiang"}

\* count_pattern can match with its first group at position i: a total
\* word at i, a digit at or after i + 2 and a unit character after it
CountMatchAt(s, i) ==
    /\ i + 1 <= Len(s)
    /\ SubSeq(s, i, i + 1) \in TotalWords
    /\ \E j \in (i + 2)..Len(s) :
          s[j] \in AsciiDigits /\ \E u \in (j + 1)..Len(s) : s[u] \in UnitChars

\* count_pattern.search(s) finds a match
CountPatternMatches(s) == \E i \in 1..Len(s) : CountMatchAt(s, i)

\* group(2) of the leftmost match: the lazy .*? stops at the first digit
\* after the total word, and \d+ takes the whole run
CountPatternGroup(s) ==
    LET i == CHOOSE k \in 1..Len(s) :
                 CountMatchAt(s, k) /\ \A m \in 1..(k - 1) : ~CountMatchAt(s, m)
        j == CHOOSE k \in (i + 2)..Len(s) :
                 s[k] \in AsciiDigits
                 /\ \A m \in (i + 2)..(k - 1) : s[m] \notin AsciiDigits
    IN  SubSeq(s, j, j + RunLength(s, j, AsciiDigits) - 1)

\* the loop over the first paragraphs: the count of the first paragraph
\* that matches, or None
RECURSIVE ParagraphCount(_)
ParagraphCount(paras) ==
    IF paras = <<>> THEN NoneV
    ELSE LET text == strip(Head(paras).text) IN
         IF text # <<>> /\ CountPatternMatches(text)
         THEN IntV(ParseInt(CountPatternGroup(text)))
         ELSE ParagraphCount(Tail(paras))

\* the rows of a table that are checked for a total row
RowsToCheck(rows) ==
    IF Len(rows) > 6 THEN Prefix(rows, 3) \o Suffix(rows, 3) ELSE rows

\* the first all-digit cell of a row, or None
RECURSIVE FirstDigitCell(_)
FirstDigitCell(cells) ==
    IF cells = <<>> THEN NoneV
    ELSE IF isdigit(strip(Head(cells))) THEN IntV(ParseInt(strip(Head(cells))))
    ELSE FirstDigitCell(Tail(cells))

\* the loop over rows_to_check
RECURSIVE RowsCount(_)
RowsCount(rows) ==
    IF rows = <<>> THEN NoneV
    ELSE LET found == IF AnyTotal(Head(rows))
                      THEN FirstDigitCell(Head(rows)) ELSE NoneV IN
         IF found # NoneV THEN found ELSE RowsCount(Tail(rows))

\* the loop over the first tables; a table that cannot be read raises, and
\* the except branch returns None
RECURSIVE TablesCount(_)
TablesCount(tables) ==
    IF tables = <<>> THEN NoneV
    ELSE IF Head(tables).raises THEN NoneV
    ELSE LET found == RowsCount(RowsToCheck(Head(tables).rows)) IN
         IF found # NoneV THEN found ELSE TablesCount(Tail(tables))

extract_declared_count(blocks, max_paragraphs, max_tables) ==
    LET from_paragraphs ==
            ParagraphCount(Prefix(SelectKind(blocks, "p"), max_paragraphs))
    IN  IF from_paragraphs # NoneV THEN from_paragraphs
        ELSE TablesCount(Prefix(SelectKind(blocks, "tbl"), max_tables))

\* ------------------------------------------------------------------------
\* State
\* ------------------------------------------------------------------------

VARIABLES
    \* a processor whose process method is called again
    repeat_calls,               \* the calls of process made after the first one
    first_result,               \* the records the first call returned
    \* the table cache of DocProcessor (src/main.py)
    cc_table_cache,             \* self._table_cache: the size len(str(v)) of each cached value
    cc_now,                     \* time.time()
    cc_last_cache_cleanup,      \* self._last_cache_cleanup
    cc_cleanup_interval,        \* self._cleanup_interval
    cc_cache_size_limit,        \* self._cache_size_limit
    cc_checks,                  \* the calls of _check_and_cleanup_cache made
    cc_stored,                  \* the results stored in the cache so far
    \* DocProcessor of src/main.py, between calls of verify_batch_consistency
    mv_doc,                     \* self.doc: the content blocks of the document
    mv_skip_count_check,        \* self._skip_count_check
    mv_large_file,              \* the file of the document is larger than 50 MB
    mv_batch_number,            \* self.batch_number
    mv_declared_count,          \* self.declared_count
    mv_cars,                    \* self.cars
    mv_reports,                 \* the dict each call of verify_batch_consistency returned
    \* BatchExtractor.extract (src/doc_processor/extractors/batch_extractor.py)
    bx_paragraphs,              \* self.doc.paragraphs: their texts
    bx_max_paragraphs,          \* self.max_paragraphs
    bx_i,                       \* the paragraph the loop of extract is at
    bx_batch_number,            \* the local batch_number of extract
    bx_declared_count,          \* the local declared_count of extract
    bx_pc,                      \* "loop", "break" (after the break), "returned"
    \* process_files (src/main.py)
    pool_files,                 \* doc_files, what processing each one does
    pool_cpu,                   \* mp.cpu_count()
    pool_task,                  \* each task: "queued", "running", "done"
    pool_results,               \* the results that arrived, by task
    pool_finished,              \* the tasks in the order they finished
    pool_next,                  \* the file the loop of process_files is at
    all_cars_data,              \* the merged records
    error_files,                \* the files recorded as failed
    pool_log,                   \* the file and the records of each step of the loop
    \* DocProcessor (src/src/processor/doc_processor.py)
    doc,                        \* self.doc.element.body: the content blocks
    pos,                        \* the block the loop of process is at
    pc,                         \* where process is: "scan" (in the loop), "done"
    batch_number,               \* self.batch_number
    current_category,           \* self.current_category
    current_section,            \* self.current_section: a node, 0 for None
    current_subsection,         \* self.current_subsection
    current_numbered_section,   \* self.current_numbered_section
    nodes,                      \* self.doc_structure: its nodes in creation order
    cars,                       \* self.cars
    table_count,                \* the local counters of process
    row_count,
    error_count,
    declared_count,             \* self.declared_count
    consistency_result,         \* the report of the scan, None until computed
    verify_log,                 \* each call of verify_batch_consistency in the run
    table_cache,                \* self.table_extractor._table_cache
    \* process_directory (src/src/__main__.py)
    file_outcomes,              \* what processing each matched file does
    file_idx,                   \* the file the loop is at
    all_cars,
    processed_count,
    success_count,
    dir_error_count,            \* error_count of process_directory
    attempted,                  \* the files handed to process_single_file, in order
    dir_result,                 \* the dict returned, None before the return
    \* a call of verify_batch_consistency
    v_cars,
    v_batch_number,
    v_declared_count,
    v_result,                   \* the dict returned, None before the call
    \* calls of TableExtractor.extract_table_cells_fast
    g_tables,                   \* the tables read, one call each
    g_call,                     \* the table of the current call
    g_pc,                       \* "call" (before a call), "loop", "done"
    g_row,                      \* the row the loop is at
    grid,                       \* rows, header_processed, last_company, last_brand
    g_results,                  \* the grid each finished call returned
    \* one call of a function on its own
    f_pc,                       \* "call" (before the call), "returned"
    f_arg,                      \* the arguments
    f_ret                       \* the value returned

procVars ==
    << doc, pos, pc, batch_number, current_category, current_section,
       current_subsection, current_numbered_section, nodes, cars, table_count,
       row_count, error_count, declared_count, consistency_result, verify_log,
       table_cache >>

dirVars ==
    << file_outcomes, file_idx, all_cars, processed_count, success_count,
       dir_error_count, attempted, dir_result >>

verVars == << v_cars, v_batch_number, v_declared_count, v_result >>

gridVars == << g_tables, g_call, g_pc, g_row, grid, g_results >>

callVars == << f_pc, f_arg, f_ret >>

poolVars ==
    << pool_files, pool_cpu, pool_task, pool_results, pool_finished,
       pool_next, all_cars_data, error_files, pool_log >>

bxVars ==
    << bx_paragraphs, bx_max_paragraphs, bx_i, bx_batch_number,
       bx_declared_count, bx_pc >>

mvVars ==
    << mv_doc, mv_skip_count_check, mv_large_file, mv_batch_number,
       mv_declared_count, mv_cars, mv_reports >>

ccVars ==
    << cc_table_cache, cc_now, cc_last_cache_cleanup,
       cc_cleanup_interval, cc_cache_size_limit, cc_checks, cc_stored >>

againVars ==
    << repeat_calls, first_result >>

vars ==
    << procVars, dirVars, verVars, gridVars, callVars, poolVars, bxVars,
       mvVars, ccVars, againVars >>

notAgain ==
    << procVars, dirVars, verVars, gridVars, callVars, poolVars, bxVars,
       mvVars, ccVars >>

notCc ==
    << procVars, dirVars, verVars, gridVars, callVars, poolVars, bxVars,
       mvVars, againVars >>

notMv ==
    << procVars, dirVars, verVars, gridVars, callVars, poolVars, bxVars,
       ccVars, againVars >>

notBx ==
    << procVars, dirVars, verVars, gridVars, callVars, poolVars, mvVars,
       ccVars, againVars >>

notPool ==
    << procVars, dirVars, verVars, gridVars, callVars, bxVars, mvVars,
       ccVars, againVars >>

\* the state outside each part
notProc ==
    << dirVars, verVars, gridVars, callVars, poolVars, bxVars, mvVars,
       ccVars, againVars >>

notDir ==
    << procVars, verVars, gridVars, callVars, poolVars, bxVars, mvVars,
       ccVars, againVars >>

notVer ==
    << procVars, dirVars, gridVars, callVars, poolVars, bxVars, mvVars,
       ccVars, againVars >>

notGrid ==
    << procVars, dirVars, verVars, callVars, poolVars, bxVars, mvVars,
       ccVars, againVars >>

notCall ==
    << procVars, dirVars, verVars, gridVars, poolVars, bxVars, mvVars,
       ccVars, againVars >>

\* the report not yet computed
NoResult == [status |-> "none"]

\* ------------------------------------------------------------------------
\* DocumentStructure.add_node (src/src/models/document_node.py)
\* A node records its parent: 0 is the root node.  The structure's own
\* current_section and current_subsection are never assigned, so a node
\* added without a parent node goes under the root.
\* ------------------------------------------------------------------------

DefaultLevel(node_type) ==
    CASE node_type = "section" -> 1
      [] node_type = "subsection" -> 2
      [] node_type = "numbered_section" -> 3
      [] node_type = "numbered_subsection" -> 4
      [] OTHER -> 5

\* the node list after add_node; the new node is the last one.
\* level < 0 stands for level=None, parent_node = 0 for parent_node=None
add_node(nodes_, title, node_type, level, parent_node, structure_batch) ==
    Append(nodes_,
           [title |-> title,
            node_type |-> node_type,
            level |-> IF level < 0 THEN DefaultLevel(node_type) ELSE level,
            parent |-> parent_node,
            batch_number |-> structure_batch])

\* b whatever a is
SecondNode(a, b) == b

\* a or b, for two nodes
OrNode(a, b) == IF a # 0 THEN a ELSE b

\* ------------------------------------------------------------------------
\* DocProcessor.process: the paragraph branch of the loop body
\* ------------------------------------------------------------------------

\* any(str.isdigit() for str in text)
HasDigit(text) == \E i \in 1..Len(text) : text[i] \in AsciiDigits

\* any(num in text for num in "123456789")
HasNonZeroDigit(text) == \E i \in 1..Len(text) : text[i] \in AsciiDigits \ {"0"}

\* text.startswith(("1.", "2.", "3.", "4.", "5."))
StartsNumbered(text) ==
    \E d \in {"1", "2", "3", "4", "5"} : startswith(text, << d, "." >>)

\* 勘误, 说明, 更正, 修改
T_erratum == << "kan", "wu4" >>

T_remark == << "shuo", "ming" >>

T_correct == << "geng", "zheng" >>

T_modify == << "xiu", "gai" >>

\* f"第{batch_number}批"
BatchTitle(b) == << "di" >> \o b.v \o << "pi" >>

\* text[:40] + "..."
ShortTitle(text) == Prefix(text, 40) \o << ".", ".", "." >>

\* the batch number extracted from every paragraph, set or not
BatchAlwaysExtracted(batch, text) == extract_batch_number(text)

\* the batch number after the paragraph: extracted only while none is set
BatchAfterParagraph(batch, text) ==
    IF ~Truthy(batch) THEN extract_batch_number(text) ELSE batch

\* the if/elif chain with every paragraph that starts with （ taken as a
\* sub-category heading, digits or not
ParagraphKindAnyParen(text) ==
    IF Contains(text, T_energy_saving_cars) THEN "energy_saving"
    ELSE IF Contains(text, T_new_energy_cars) THEN "new_energy"
    ELSE IF startswith(text, << "LP" >>) THEN "subsection"
    ELSE IF StartsNumbered(text) THEN "numbered_section"
    ELSE IF Contains(text, T_erratum) \/ Contains(text, T_remark) THEN "note"
    ELSE IF Contains(text, T_correct) \/ Contains(text, T_modify)
        THEN "correction"
    ELSE "text"

\* the heading kind of a paragraph: the branch of the if/elif chain taken
ParagraphKind(text) ==
    IF Contains(text, T_energy_saving_cars) THEN "energy_saving"
    ELSE IF Contains(text, T_new_energy_cars) THEN "new_energy"
    ELSE IF startswith(text, << "LP" >>) /\ ~HasDigit(text) THEN "subsection"
    ELSE IF StartsNumbered(text) THEN "numbered_section"
    ELSE IF startswith(text, << "LP" >>) /\ HasNonZeroDigit(text)
        THEN "numbered_subsection"
    ELSE IF Contains(text, T_erratum) \/ Contains(text, T_remark) THEN "note"
    ELSE IF Contains(text, T_correct) \/ Contains(text, T_modify)
        THEN "correction"
    ELSE "text"

ScanParagraph ==
    /\ pc = "scan"
    /\ pos <= Len(doc)
    /\ IsPara(doc[pos])
    /\ LET text == strip(doc[pos].text)
           batch == BatchAfterParagraph(batch_number, text)
           newly_set == ~Truthy(batch_number) /\ Truthy(batch)
           structure_batch == IF Truthy(batch) THEN batch ELSE NoneV
           nodes1 == IF newly_set
                     THEN add_node(nodes, BatchTitle(batch), "batch", 0, 0,
                                   structure_batch)
                     ELSE nodes
           kind == ParagraphKind(text)
           new == Len(nodes1) + 1
       IN
       IF text = <<>>
       THEN UNCHANGED << batch_number, current_category, current_section,
                         current_subsection, current_numbered_section, nodes >>
       ELSE
       /\ batch_number' = batch
       /\ CASE kind = "energy_saving" ->
                 /\ current_category' = StrV(C_energy_saving)
                 /\ nodes' = add_node(nodes1, T_energy_saving_cars, "section",
                                      -1, 0, structure_batch)
                 /\ current_section' = new
                 /\ current_subsection' = 0
                 /\ current_numbered_section' = 0
            [] kind = "new_energy" ->
                 /\ current_category' = StrV(C_new_energy)
                 /\ nodes' = add_node(nodes1, T_new_energy_cars, "section",
                                      -1, 0, structure_batch)
                 /\ current_section' = new
                 /\ current_subsection' = 0
                 /\ current_numbered_section' = 0
            [] kind = "subsection" ->
                 /\ nodes' = add_node(nodes1, strip(text), "subsection", -1,
                                      current_section, structure_batch)
                 /\ current_subsection' = new
                 /\ current_numbered_section' = 0
                 /\ UNCHANGED << current_category, current_section >>
            [] kind = "numbered_section" ->
                 /\ nodes' = add_node(nodes1, strip(text), "numbered_section",
                                      -1,
                                      OrNode(current_subsection, current_section),
                                      structure_batch)
                 /\ current_numbered_section' = new
                 /\ UNCHANGED << current_category, current_section,
                                 current_subsection >>
            [] kind = "numbered_subsection" ->
                 /\ nodes' = add_node(nodes1, strip(text), "numbered_subsection",
                                      -1,
                                      IF current_numbered_section # 0
                                      THEN current_numbered_section
                                      ELSE OrNode(current_subsection,
                                                  current_section),
                                      structure_batch)
                 /\ UNCHANGED << current_category, current_section,
                                 current_subsection, current_numbered_section >>
            [] OTHER ->
                 /\ nodes' = add_node(nodes1, ShortTitle(text), kind, -1,
                                      current_section, structure_batch)
                 /\ UNCHANGED << current_category, current_section,
                                 current_subsection, current_numbered_section >>
    /\ pos' = pos + 1
    /\ UNCHANGED << doc, pc, cars, table_count, row_count, error_count,
                    declared_count, consistency_result, verify_log,
                    table_cache, notProc >>

\* ------------------------------------------------------------------------
\* DocProcessor.process: the table branch of the loop body
\* ------------------------------------------------------------------------

\* the index i of the table at block p in self.doc.tables, from 0
TableIndexAt(blocks, p) == Len(SelectKind(SubSeq(blocks, 1, p - 1), "tbl"))

\* self.current_subsection.title if self.current_subsection else None
CurrentSubType(nodes_, subsection) ==
    IF subsection # 0 THEN StrV(nodes_[subsection].title) ELSE NoneV

\* f"表格 {i + 1}"
TableTitle(i) == << "biao", "ge", " " >> \o FormatInt(i + 1)

\* extract_car_info reaches the statement that stores its result in the
\* cache (the three early returns store nothing)
StoresInCache(table) ==
    /\ table # <<>>
    /\ extract_table_cells_fast(table) # <<>>
    /\ CleanHeaders(extract_table_cells_fast(table)[1]) # <<>>

\* the parent of a table node
TableParent(numbered, subsection, section) ==
    OrNode(numbered, OrNode(subsection, section))

ScanTable ==
    /\ pc = "scan"
    /\ pos <= Len(doc)
    /\ IsTbl(doc[pos])
    /\ LET table == doc[pos].rows
           i == TableIndexAt(doc, pos)
           current_sub_type == CurrentSubType(nodes, current_subsection)
           table_cars ==
               IF i \in DOMAIN table_cache THEN table_cache[i]
               ELSE extract_car_info(table, i, current_category,
                                     current_sub_type, batch_number)
       IN
       /\ table_count' = table_count + 1
       /\ row_count' = row_count + Len(table)
       /\ IF doc[pos].raises
          THEN /\ error_count' = error_count + 1
               /\ UNCHANGED << cars, nodes, table_cache >>
          ELSE /\ cars' = cars \o table_cars
               /\ table_cache' =
                      IF i \notin DOMAIN table_cache /\ StoresInCache(table)
                      THEN [k \in DOMAIN table_cache \cup {i} |->
                               IF k = i THEN table_cars ELSE table_cache[k]]
                      ELSE table_cache
               /\ nodes' = add_node(nodes, TableTitle(i), "table", -1,
                                    TableParent(current_numbered_section,
                                                current_subsection,
                                                current_section),
                                    IF Truthy(batch_number) THEN batch_number
                                    ELSE NoneV)
               /\ UNCHANGED error_count
    /\ pos' = pos + 1
    /\ UNCHANGED << doc, pc, batch_number, current_category, current_section,
                    current_subsection, current_numbered_section,
                    declared_count, consistency_result, verify_log,
                    notProc >>

\* ------------------------------------------------------------------------
\* DocProcessor.process: after the loop (the declared count, the
\* consistency check, the cache cleared, the return)
\* ------------------------------------------------------------------------

\* self._extract_declared_count(), document.skip_count_check left False
DeclaredCountAfterScan(declared, blocks) ==
    IF declared = NoneV
    THEN extract_declared_count(blocks, max_paragraphs_to_search,
                                max_tables_to_search)
    ELSE declared

\* the consistency check run from inside the loop, at any block
FinishProcessEarly ==
    /\ pc = "scan"
    /\ LET declared == DeclaredCountAfterScan(declared_count, doc) IN
       /\ declared_count' = declared
       /\ consistency_result' =
              verify_batch_consistency(cars, batch_number, declared)
       /\ verify_log' = Append(verify_log, [pos |-> pos, cars |-> cars])
    /\ table_cache' = << >>
    /\ pc' = "done"
    /\ UNCHANGED << doc, pos, batch_number, current_category, current_section,
                    current_subsection, current_numbered_section, nodes, cars,
                    table_count, row_count, error_count, notProc >>

FinishProcess ==
    /\ pc = "scan"
    /\ pos > Len(doc)
    /\ LET declared == DeclaredCountAfterScan(declared_count, doc) IN
       /\ declared_count' = declared
       /\ consistency_result' =
              verify_batch_consistency(cars, batch_number, declared)
       /\ verify_log' = Append(verify_log, [pos |-> pos, cars |-> cars])
    /\ table_cache' = << >>
    /\ pc' = "done"
    /\ UNCHANGED << doc, pos, batch_number, current_category, current_section,
                    current_subsection, current_numbered_section, nodes, cars,
                    table_count, row_count, error_count, notProc >>

\* ------------------------------------------------------------------------
\* process_directory (src/src/__main__.py)
\* What processing a matched file does is an input: DocProcessor.process
\* returns n >= 1 records ("records"), returns none ("empty"), raises
\* inside process_single_file ("raises"), the file does not exist
\* ("missing"), or process_single_file itself raises ("call_raises", as in
\* test_process_directory_with_errors).  A record is <<file, k>>: the
\* k-th record of the file.  batch_info, a second tally of the same
\* records, is left out.
\* ------------------------------------------------------------------------

\* most records one file yields
MaxRecordsPerFile == 2

FileOutcomes ==
    {[kind |-> "records", n |-> n] : n \in 1..MaxRecordsPerFile}
        \cup {[kind |-> k, n |-> 0] :
                 k \in {"empty", "raises", "missing", "call_raises"}}

\* process_single_file(file_path, ...): the list returned; every exception
\* of the processing is caught and gives []
process_single_file(f, outcome) ==
    IF outcome.kind = "records" THEN [k \in 1..outcome.n |-> << f, k >>]
    ELSE <<>>

DirNoFiles ==
    /\ dir_result = NoResult
    /\ file_outcomes = <<>>
    /\ dir_result' = [status |-> "error", total_files |-> 0,
                      processed_files |-> 0, success_files |-> 0,
                      error_files |-> 0, total_records |-> 0]
    /\ UNCHANGED << file_outcomes, file_idx, all_cars, processed_count,
                    success_count, dir_error_count, attempted, notDir >>

\* the loop body without the else branch: a file that gives no records is
\* not counted as an error
DirProcessFileUncounted ==
    /\ dir_result = NoResult
    /\ file_outcomes # <<>>
    /\ file_idx <= Len(file_outcomes)
    /\ attempted' = Append(attempted, file_idx)
    /\ IF file_outcomes[file_idx].kind = "call_raises"
       THEN /\ dir_error_count' = dir_error_count + 1
            /\ UNCHANGED << all_cars, processed_count, success_count >>
       ELSE LET result == process_single_file(file_idx, file_outcomes[file_idx])
            IN  /\ processed_count' = processed_count + 1
                /\ IF result # <<>>
                   THEN /\ all_cars' = all_cars \o result
                        /\ success_count' = success_count + 1
                        /\ UNCHANGED dir_error_count
                   ELSE UNCHANGED << all_cars, success_count, dir_error_count >>
    /\ file_idx' = file_idx + 1
    /\ UNCHANGED << file_outcomes, dir_result, notDir >>

\* one iteration of the loop over file_paths
DirProcessFile ==
    /\ dir_result = NoResult
    /\ file_outcomes # <<>>
    /\ file_idx <= Len(file_outcomes)
    /\ attempted' = Append(attempted, file_idx)
    /\ IF file_outcomes[file_idx].kind = "call_raises"
       THEN /\ dir_error_count' = dir_error_count + 1
            /\ UNCHANGED << all_cars, processed_count, success_count >>
       ELSE LET result == process_single_file(file_idx, file_outcomes[file_idx])
            IN  /\ processed_count' = processed_count + 1
                /\ IF result # <<>>
                   THEN /\ all_cars' = all_cars \o result
                        /\ success_count' = success_count + 1
                        /\ UNCHANGED dir_error_count
                   ELSE /\ dir_error_count' = dir_error_count + 1
                        /\ UNCHANGED << all_cars, success_count >>
    /\ file_idx' = file_idx + 1
    /\ UNCHANGED << file_outcomes, dir_result, notDir >>

\* after the loop: the combined output is written and the dict returned
DirReturn ==
    /\ dir_result = NoResult
    /\ file_outcomes # <<>>
    /\ file_idx > Len(file_outcomes)
    /\ dir_result' = [status |-> "success",
                      total_files |-> Len(file_outcomes),
                      processed_files |-> processed_count,
                      success_files |-> success_count,
                      error_files |-> dir_error_count,
                      total_records |-> Len(all_cars)]
    /\ UNCHANGED << file_outcomes, file_idx, all_cars, processed_count,
                    success_count, dir_error_count, attempted, notDir >>

\* ------------------------------------------------------------------------
\* Inputs
\* ------------------------------------------------------------------------

\* paragraph texts: 第五批; 关于三项目录 (a bare numeral, no batch
\* pattern); 节能型汽车; 新能源汽车; （一）乘用车; （二）货车，客车;
\* 共计2款; 1.a; （1）a; a blank paragraph
ParagraphSamples ==
    { << "di", "wu", "pi" >>,
      << "guan", "yu", "san", "xiang", "mu", "lu" >>,
      T_energy_saving_cars,
      T_new_energy_cars,
      << "LP", "yi", "RP", "cheng2", "yong", "che" >>,
      << "LP", "er", "RP", "huo", "che", "FC", "ke", "che" >>,
      << "gong", "ji", "2", "kuan" >>,
      << "1", ".", "a" >>,
      << "LP", "1", "RP", "a" >>,
      << " " >> }

\* a table with both required columns, whose second row leaves company and
\* brand empty
TableComplete ==
    << << H_seq, H_company, H_brand, H_model >>,
       << << "1" >>, << "A" >>, << "B" >>, << "M" >> >>,
       << << "2" >>, <<>>, <<>>, << "N" >> >> >>

\* a table without the columns 序号 and 企业名称
TableNoRequired ==
    << << H_model, H_brand, H_type >>,
       << << "M" >>, << "B" >>, << "T" >> >> >>

\* a table whose second data row has one cell only
TableShortRow ==
    << << H_seq, H_company, H_brand >>,
       << << "1" >>, << "A" >>, << "B" >> >>,
       << << "2" >> >> >>

\* a table with columns named sub_type and category
TableContextColumns ==
    << << H_seq, H_company, K_sub_type, K_category >>,
       << << "1" >>, << "A" >>, << "Z" >>, << "Y" >> >> >>

BlockSamples ==
    {Para(p) : p \in ParagraphSamples}
        \cup {Tbl(TableComplete, FALSE), Tbl(TableNoRequired, FALSE),
              Tbl(TableShortRow, FALSE), Tbl(TableContextColumns, FALSE),
              Tbl(TableComplete, TRUE)}

\* every sequence over S of length 0..n
SeqsUpTo(S, n) == UNION {[1..k -> S] : k \in 0..n}

\* records given to verify_batch_consistency: of table 1, of table 2,
\* without a table_id
CarSamples ==
    { [k \in {K_table_id} |-> IntV(1)],
      [k \in {K_table_id} |-> IntV(2)],
      [k \in {K_vmodel} |-> StrV(<< "M" >>)] }

BatchNumberSamples == {NoneV, StrV(<<>>), StrV(<< "5" >>)}

DeclaredCountSamples == {NoneV} \cup {IntV(d) : d \in 0..MaxDeclared}

\* ------------------------------------------------------------------------
\* Initial states; the parts of the state a specification does not use
\* stay idle
\* ------------------------------------------------------------------------

ProcStart(d) ==
    /\ doc = d
    /\ pos = 1
    /\ pc = "scan"
    /\ batch_number = NoneV
    /\ current_category = NoneV
    /\ current_section = 0
    /\ current_subsection = 0
    /\ current_numbered_section = 0
    /\ nodes = <<>>
    /\ cars = <<>>
    /\ table_count = 0
    /\ row_count = 0
    /\ error_count = 0
    /\ declared_count = NoneV
    /\ consistency_result = NoResult
    /\ verify_log = <<>>
    /\ table_cache = << >>

DirStart(outcomes) ==
    /\ file_outcomes = outcomes
    /\ file_idx = 1
    /\ all_cars = <<>>
    /\ processed_count = 0
    /\ success_count = 0
    /\ dir_error_count = 0
    /\ attempted = <<>>
    /\ dir_result = NoResult

VerStart(cars_, batch, declared) ==
    /\ v_cars = cars_
    /\ v_batch_number = batch
    /\ v_declared_count = declared
    /\ v_result = NoResult

\* a part that is not running: its position is "idle"
Idle == [status |-> "idle"]

ProcIdle ==
    /\ doc = <<>> /\ pos = 0 /\ pc = "idle"
    /\ batch_number = NoneV /\ current_category = NoneV
    /\ current_section = 0 /\ current_subsection = 0
    /\ current_numbered_section = 0
    /\ nodes = <<>> /\ cars = <<>>
    /\ table_count = 0 /\ row_count = 0 /\ error_count = 0
    /\ declared_count = NoneV /\ consistency_result = Idle
    /\ verify_log = <<>> /\ table_cache = << >>

DirIdle ==
    /\ file_outcomes = <<>> /\ file_idx = 0 /\ all_cars = <<>>
    /\ processed_count = 0 /\ success_count = 0 /\ dir_error_count = 0
    /\ attempted = <<>> /\ dir_result = Idle

VerIdle ==
    /\ v_cars = <<>> /\ v_batch_number = NoneV /\ v_declared_count = NoneV
    /\ v_result = Idle

GridIdle ==
    /\ g_tables = <<>> /\ g_call = 0 /\ g_pc = "idle" /\ g_row = 0
    /\ grid = GridStart /\ g_results = <<>>

PoolIdle ==
    pool_files = <<>> /\ pool_cpu = 0 /\ pool_task = <<>> /\ pool_results = <<>> /\ pool_finished = <<>> /\ pool_next = 0 /\ all_cars_data = <<>> /\ error_files = <<>> /\ pool_log = <<>>

BxIdle ==
    bx_paragraphs = <<>> /\ bx_max_paragraphs = 0 /\ bx_i = 0 /\ bx_batch_number = NoneV /\ bx_declared_count = NoneV /\ bx_pc = "idle"

MvIdle ==
    mv_doc = <<>> /\ mv_skip_count_check = FALSE /\ mv_large_file = FALSE /\ mv_batch_number = NoneV /\ mv_declared_count = NoneV /\ mv_cars = <<>> /\ mv_reports = <<>>

CcIdle ==
    cc_table_cache = <<>> /\ cc_now = 0 /\ cc_last_cache_cleanup = 0 /\ cc_cleanup_interval = 0 /\ cc_cache_size_limit = 0 /\ cc_checks = 0 /\ cc_stored = 0

AgainIdle ==
    repeat_calls = 0 /\ first_result = <<>>

CallIdle == f_pc = "idle" /\ f_arg = <<>> /\ f_ret = <<>>

\* ------------------------------------------------------------------------
\* Specifications
\* ------------------------------------------------------------------------

\* one run of DocProcessor.process on a new processor
Init == (\E d \in SeqsUpTo(BlockSamples, MaxBlocks) : ProcStart(d))
            /\ DirIdle /\ VerIdle /\ GridIdle /\ CallIdle /\ PoolIdle /\ BxIdle /\ MvIdle /\ CcIdle /\ AgainIdle

Next == ScanParagraph \/ ScanTable \/ FinishProcess

Spec == Init /\ [][Next]_vars

\* one call of process_directory
InitDir == (\E o \in SeqsUpTo(FileOutcomes, MaxFiles) : DirStart(o))
               /\ ProcIdle /\ VerIdle /\ GridIdle /\ CallIdle /\ PoolIdle /\ BxIdle /\ MvIdle /\ CcIdle /\ AgainIdle

NextDir == DirNoFiles \/ DirProcessFile \/ DirReturn

SpecDir == InitDir /\ [][NextDir]_vars

\* one call of verify_batch_consistency
CallVerify ==
    /\ v_result = NoResult
    /\ v_result' = verify_batch_consistency(v_cars, v_batch_number,
                                            v_declared_count)
    /\ UNCHANGED << v_cars, v_batch_number, v_declared_count, notVer >>

InitVerify ==
    (\E c \in SeqsUpTo(CarSamples, MaxCars) :
        \E b \in BatchNumberSamples :
            \E d \in DeclaredCountSamples : VerStart(c, b, d))
        /\ ProcIdle /\ DirIdle /\ GridIdle /\ CallIdle /\ PoolIdle /\ BxIdle /\ MvIdle /\ CcIdle /\ AgainIdle

NextVerify == CallVerify

SpecVerify == InitVerify /\ [][NextVerify]_vars

\* ------------------------------------------------------------------------
\* Calls of TableExtractor.extract_table_cells_fast, one loop iteration at
\* a time: the same extractor reads a first table, then a second one
\* ------------------------------------------------------------------------

\* most data rows of a table that is read
MaxRows == 3

\* last_company and last_brand kept from the call before
GridEnterStale(previous) ==
    [GridStart EXCEPT !.last_company = previous.last_company,
                      !.last_brand = previous.last_brand]

\* the local variables at the start of a call; previous is the loop state
\* the last call left behind, which a call does not read
GridEnter(previous) == GridStart

GridCall ==
    /\ g_pc = "call"
    /\ g_call <= Len(g_tables)
    /\ grid' = GridEnter(grid)
    /\ g_row' = 1
    /\ g_pc' = "loop"
    /\ UNCHANGED << g_tables, g_call, g_results, notGrid >>

GridIterate ==
    /\ g_pc = "loop"
    /\ g_row <= Len(g_tables[g_call])
    /\ ~grid.raised
    /\ grid' = GridRow(grid, g_tables[g_call][g_row])
    /\ g_row' = g_row + 1
    /\ UNCHANGED << g_tables, g_call, g_pc, g_results, notGrid >>

\* return rows, or [] from the except branch
GridReturn ==
    /\ g_pc = "loop"
    /\ g_row > Len(g_tables[g_call]) \/ grid.raised
    /\ g_results' = Append(g_results, IF grid.raised THEN <<>> ELSE grid.rows)
    /\ g_call' = g_call + 1
    /\ g_pc' = IF g_call < Len(g_tables) THEN "call" ELSE "done"
    /\ UNCHANGED << g_tables, g_row, grid, notGrid >>

GridHeader == << H_seq, H_company, H_brand, H_model >>

\* data rows: complete; company and brand empty; brand empty; all empty;
\* a total row; one cell only; a blank company; one cell too many; a row
\* whose last cell, not its first, starts with 总计
RowSamples ==
    { << << "1" >>, << "A" >>, << "B" >>, << "M" >> >>,
      << << "6" >>, << "F" >>, << "G" >>, T_zongji \o << "S" >> >>,
      << << "2" >>, <<>>, <<>>, << "N" >> >>,
      << << "3" >>, << "C" >>, <<>>, << "P" >> >>,
      << <<>>, <<>>, <<>>, <<>> >>,
      << T_heji, <<>>, <<>>, << "3" >> >>,
      << << "9" >> >>,
      << << "4" >>, << " " >>, << "E" >>, << "Q" >> >>,
      << << "5" >>, << "D" >>, << "F" >>, << "R" >>, << "X" >> >> }

GridTables == {<< GridHeader >> \o rows : rows \in SeqsUpTo(RowSamples, MaxRows)}

\* the table read first leaves a company and a brand behind, or nothing
FirstTables ==
    { << GridHeader, << << "1" >>, << "Z" >>, << "Y" >>, << "M" >> >> >>,
      << GridHeader >> }

InitGrid ==
    /\ \E t1 \in FirstTables : \E t2 \in GridTables : g_tables = << t1, t2 >>
    /\ g_call = 1
    /\ g_pc = "call"
    /\ g_row = 0
    /\ grid = GridStart
    /\ g_results = <<>>
    /\ ProcIdle /\ DirIdle /\ VerIdle /\ CallIdle /\ PoolIdle /\ BxIdle /\ MvIdle /\ CcIdle /\ AgainIdle

NextGrid == GridCall \/ GridIterate \/ GridReturn

SpecGrid == InitGrid /\ [][NextGrid]_vars

\* ------------------------------------------------------------------------
\* Properties of process_directory (SpecDir)
\* ------------------------------------------------------------------------

\* the files whose processing gave a non-empty record list
SuccessfulFiles(outcomes) ==
    {i \in 1..Len(outcomes) : outcomes[i].kind = "records"}

\* the records of the first k files
RECURSIVE RecordsOfFirst(_, _)
RecordsOfFirst(outcomes, k) ==
    IF k = 0 THEN 0
    ELSE RecordsOfFirst(outcomes, k - 1)
             + (IF outcomes[k].kind = "records" THEN outcomes[k].n ELSE 0)

\* C1: process_directory attempts every matched file in list order
\* whatever the earlier files did (an exception of one file does not stop
\* the loop), and the dict it returns has success_files + error_files =
\* total_files, error_files the number of files that raised or gave no
\* records, and total_records the number of records of the successful
\* files.
C1_EveryFileCounted ==
    /\ file_idx >= 1 =>
           attempted = [i \in 1..(file_idx - 1) |-> i]
    /\ dir_result \notin {NoResult, Idle} =>
           /\ attempted = [i \in 1..Len(file_outcomes) |-> i]
           /\ dir_result.total_files = Len(file_outcomes)
           /\ dir_result.success_files + dir_result.error_files
                  = dir_result.total_files
           /\ dir_result.success_files
                  = Cardinality(SuccessfulFiles(file_outcomes))
           /\ dir_result.error_files
                  = Len(file_outcomes)
                        - Cardinality(SuccessfulFiles(file_outcomes))
           /\ dir_result.total_records
                  = RecordsOfFirst(file_outcomes, Len(file_outcomes))

\* C1 happens: the call returned after a file that raised, a file without
\* records and a file with two records, in this order
C1_Witness ==
    /\ dir_result \notin {NoResult, Idle}
    /\ Len(file_outcomes) = 3
    /\ file_outcomes[1].kind = "call_raises"
    /\ file_outcomes[2].kind = "empty"
    /\ file_outcomes[3] = [kind |-> "records", n |-> 2]
    /\ dir_result.success_files = 1
    /\ dir_result.error_files = 2
    /\ dir_result.total_records = 2

\* ------------------------------------------------------------------------
\* validate_car_info (src/src/utils/validation.py)
\* A float is the tagged record FloatV(s), s its decimal text as repr
\* prints it ("1498.0", "5.8").  The texts given to float() are over
\* digits, ".", ",", "/", blanks and other characters that are no part of
\* a numeral; signs, exponents, "inf" and "nan" are not among the inputs.
\* ------------------------------------------------------------------------

FloatV(s) == [t |-> "float", v |-> s, n |-> 0]

\* float(s) does not raise ValueError: a decimal numeral, blanks around it
IsFloatText(s) ==
    LET t == strip(s) IN
    /\ \A i \in 1..Len(t) : t[i] \in AsciiDigits \cup {"."}
    /\ \E i \in 1..Len(t) : t[i] \in AsciiDigits
    /\ Cardinality({i \in 1..Len(t) : t[i] = "."}) <= 1

\* digits without the zeros at their end
RECURSIVE DropTrailingZeros(_)
DropTrailingZeros(s) ==
    IF s # <<>> /\ s[Len(s)] = "0"
    THEN DropTrailingZeros(SubSeq(s, 1, Len(s) - 1))
    ELSE s

\* float(s), for a text float() accepts
ParseFloat(s) ==
    LET parts == split(strip(s), ".")
        whole == FormatInt(ParseInt(parts[1]))
        frac == IF Len(parts) = 1 THEN <<>> ELSE DropTrailingZeros(parts[2])
    IN  FloatV(whole \o << "." >> \o (IF frac = <<>> THEN << "0" >> ELSE frac))

\* digits right-padded with zeros to n digits
PadZeros(s, n) == s \o [i \in 1..(n - Len(s)) |-> "0"]

\* a < b, for two floats
FloatLess(a, b) ==
    LET pa == split(a.v, ".")
        pb == split(b.v, ".")
        n == IF Len(pa[2]) > Len(pb[2]) THEN Len(pa[2]) ELSE Len(pb[2])
    IN  \/ ParseInt(pa[1]) < ParseInt(pb[1])
        \/ /\ ParseInt(pa[1]) = ParseInt(pb[1])
           /\ ParseInt(PadZeros(pa[2], n)) < ParseInt(PadZeros(pb[2], n))

\* min(values) of a non-empty list of floats: the first smallest one
RECURSIVE MinFloat(_)
MinFloat(values) ==
    IF Len(values) = 1 THEN values[1]
    ELSE LET rest == MinFloat(Tail(values)) IN
         IF FloatLess(rest, Head(values)) THEN rest ELSE Head(values)

\* value.replace(", ", ",")
RECURSIVE ReplaceCommaSpace(_)
ReplaceCommaSpace(s) ==
    IF s = <<>> THEN <<>>
    ELSE IF startswith(s, << ",", " " >>)
         THEN << "," >> \o ReplaceCommaSpace(SubSeq(s, 3, Len(s)))
         ELSE << Head(s) >> \o ReplaceCommaSpace(Tail(s))

\* [v for v in parts if v.strip()]
RECURSIVE NonBlankParts(_)
NonBlankParts(parts) ==
    IF parts = <<>> THEN <<>>
    ELSE IF strip(Head(parts)) # <<>>
         THEN << Head(parts) >> \o NonBlankParts(Tail(parts))
         ELSE NonBlankParts(Tail(parts))

\* 排量(ml), 整车整备质量(kg), 综合燃料消耗量（L/100km）
N_displacement == << "pai2", "liang", "(", "m", "l", ")" >>

N_curb_mass ==
    << "zheng", "che", "zheng", "bei", "zhi", "liang", "(", "k", "g", ")" >>

N_fuel ==
    << "zong2", "he", "ran", "liao", "xiao", "hao4", "liang", "LP", "L", "/",
       "1", "0", "0", "k", "m", "RP" >>

numeric_fields == << N_displacement, N_curb_mass, N_fuel >>

\* the body of the loop over numeric_fields for one field: the dict after
\* it, or raised = TRUE when float() or min() raises ValueError outside
\* the try block
NumericField(fixed_info, field) ==
    IF ~HasKey(fixed_info, field) \/ ~IsStr(fixed_info[field])
    THEN [raised |-> FALSE, d |-> fixed_info]
    ELSE LET value == fixed_info[field].v IN
         IF HasChar(value, "/")
         THEN LET parts == NonBlankParts(split(value, "/")) IN
              IF parts = <<>>
                    \/ \E i \in 1..Len(parts) : ~IsFloatText(parts[i])
              THEN [raised |-> TRUE, d |-> fixed_info]
              ELSE [raised |-> FALSE,
                    d |-> Put(fixed_info, field,
                              MinFloat([i \in 1..Len(parts) |->
                                           ParseFloat(parts[i])]))]
         ELSE IF IsFloatText(ReplaceCommaSpace(value))
              THEN [raised |-> FALSE,
                    d |-> Put(fixed_info, field,
                              ParseFloat(ReplaceCommaSpace(value)))]
              ELSE [raised |-> FALSE, d |-> fixed_info]

RECURSIVE NumericFields(_, _)
NumericFields(state, fields) ==
    IF fields = <<>> \/ state.raised THEN state
    ELSE NumericFields(NumericField(state.d, Head(fields)), Tail(fields))

\* 空行, 合计行, 缺少必要字段: <field>
R_empty_row == << "kong", "hang" >>

R_total_row == T_heji \o << "hang" >>

R_missing(field) ==
    << "que", "shao", "bi", "yao", "zi", "duan", ":", " " >> \o field

required_fields == << K_energytype, K_category, K_sub_type >>

\* the first required field the dict lacks, <<>> when it has them all
RECURSIVE FirstMissing(_, _)
FirstMissing(fixed_info, fields) ==
    IF fields = <<>> THEN <<>>
    ELSE IF ~HasKey(fixed_info, Head(fields)) THEN Head(fields)
         ELSE FirstMissing(fixed_info, Tail(fields))

\* if "型式" in fixed_info and "档位数" in fixed_info: the two are popped
\* and joined with a blank under 变速器
MergeTransmission(fixed_info) ==
    IF HasKey(fixed_info, H_type) /\ HasKey(fixed_info, H_gears)
    THEN Put(Pop(Pop(fixed_info, H_type), H_gears), H_transmission,
             StrV(PyStr(fixed_info[H_type]) \o << " " >>
                      \o PyStr(fixed_info[H_gears])))
    ELSE fixed_info

\* the tuple returned: valid, reason, fixed (<<>> for None, << dict >>
\* for a dict); raised = TRUE when the call ends with an exception instead
Returned(valid, reason, fixed) ==
    [raised |-> FALSE, valid |-> valid, reason |-> reason, fixed |-> fixed]

Raised == [raised |-> TRUE, valid |-> FALSE, reason |-> <<>>, fixed |-> <<>>]

validate_car_info(car_info) ==
    IF \A k \in DOMAIN car_info : strip(PyStr(car_info[k])) = <<>>
    THEN Returned(FALSE, R_empty_row, <<>>)
    ELSE IF \E k \in DOMAIN car_info : IsTotalCell(PyStr(car_info[k]))
    THEN Returned(FALSE, R_total_row, <<>>)
    ELSE LET numeric ==
                 NumericFields([raised |-> FALSE,
                                d |-> MergeTransmission(car_info)],
                               numeric_fields)
         IN  IF numeric.raised THEN Raised
             ELSE LET missing == FirstMissing(numeric.d, required_fields) IN
                  IF missing # <<>>
                  THEN Returned(FALSE, R_missing(missing), <<>>)
                  ELSE Returned(TRUE, <<>>, << numeric.d >>)

\* ------------------------------------------------------------------------
\* One call of TableExtractor.extract_car_info on a new extractor (the
\* cache is empty)
\* ------------------------------------------------------------------------

\* most data rows of a table given to extract_car_info
MaxDataRows == 2

\* 排量
H_displacement == << "pai2", "liang" >>

\* header rows: plain; with the pair 型式, 档位数 before 排量; with an
\* empty header cell before 排量; with the other names of company, brand
\* and model; without a model column
HeaderSamples ==
    { << H_seq, H_company, H_brand, H_model >>,
      << H_seq, H_company, H_brand, H_type, H_gears, H_displacement >>,
      << H_seq, H_company, <<>>, H_displacement >>,
      << H_seq, H_producer, H_generic_name, H_product_model >>,
      << H_seq, H_company, H_brand, H_displacement >> }

\* data rows of four and of six cells, with empty cells, and all empty
DataRowSamples ==
    { << << "1" >>, << "A" >>, << "B" >>, << "M" >> >>,
      << << "2" >>, <<>>, <<>>, <<>> >>,
      << << "3" >>, << "C" >>, << "D" >>, << "T" >>, << "5" >>, << "N" >> >>,
      << <<>>, <<>>, <<>>, <<>> >> }

ExtractArgs ==
    [table : {<< h >> \o rows : h \in HeaderSamples,
                                rows \in SeqsUpTo(DataRowSamples, MaxDataRows)},
     table_index : {0},
     category : {NoneV, StrV(C_energy_saving)},
     sub_type : {NoneV},
     batch_number : {NoneV, StrV(<< "5" >>)}]

CallExtract ==
    /\ f_pc = "call"
    /\ f_ret' = extract_car_info(f_arg.table, f_arg.table_index, f_arg.category,
                                 f_arg.sub_type, f_arg.batch_number)
    /\ f_pc' = "returned"
    /\ UNCHANGED << f_arg, notCall >>

InitExtract ==
    /\ f_pc = "call"
    /\ f_arg \in ExtractArgs
    /\ f_ret = <<>>
    /\ ProcIdle /\ DirIdle /\ VerIdle /\ GridIdle /\ PoolIdle /\ BxIdle /\ MvIdle /\ CcIdle /\ AgainIdle

NextExtract == CallExtract

SpecExtract == InitExtract /\ [][NextExtract]_vars

\* ------------------------------------------------------------------------
\* One call of validate_car_info
\* ------------------------------------------------------------------------

\* a value for each structural key of a record
StructuralValue(k) ==
    CASE k = K_batch -> StrV(<< "5" >>)
      [] k = K_energytype -> IntV(2)
      [] k = K_category -> StrV(C_energy_saving)
      [] k = K_sub_type -> StrV(<< "Z" >>)
      [] OTHER -> StrV(<< "M" >>)

\* records with any of batch, energytype, category, sub_type, and a model
StructuralDicts ==
    {[k \in S \cup {K_vmodel} |-> StructuralValue(k)] :
        S \in SUBSET {K_batch, K_energytype, K_category, K_sub_type}}

\* texts of a numeric column: 1498, 5.8, 1250/1300, 1300/, 12/x, /,
\* abc, "1, 5", the empty text
NumericSamples ==
    { << "1", "4", "9", "8" >>,
      << "5", ".", "8" >>,
      << "1", "2", "5", "0", "/", "1", "3", "0", "0" >>,
      << "1", "3", "0", "0", "/" >>,
      << "1", "2", "/", "x" >>,
      << "/" >>,
      << "a", "b", "c" >>,
      << "1", ",", " ", "5" >>,
      <<>> }

ValidateArgs ==
    StructuralDicts
      \cup {Put(d, f, StrV(s)) :
                d \in StructuralDicts,
                f \in {N_displacement, N_fuel},
                s \in NumericSamples}
      \cup {Put(Put(d, H_type, StrV(<< "T" >>)), H_gears, StrV(<< "5" >>)) :
                d \in StructuralDicts}
      \cup {Put(d, H_brand, StrV(T_heji)) : d \in StructuralDicts}
      \cup {EmptyDict, [k \in {H_brand, H_seq} |-> StrV(<< " " >>)]}

CallValidate ==
    /\ f_pc = "call"
    /\ f_ret' = validate_car_info(f_arg)
    /\ f_pc' = "returned"
    /\ UNCHANGED << f_arg, notCall >>

InitValidate ==
    /\ f_pc = "call"
    /\ f_arg \in ValidateArgs
    /\ f_ret = <<>>
    /\ ProcIdle /\ DirIdle /\ VerIdle /\ GridIdle /\ PoolIdle /\ BxIdle /\ MvIdle /\ CcIdle /\ AgainIdle

NextValidate == CallValidate

SpecValidate == InitValidate /\ [][NextValidate]_vars

\* ------------------------------------------------------------------------
\* One call of process_car_info
\* ------------------------------------------------------------------------

\* values of a model column: "", " ", M1, M2, " M3", a text ending with a
\* full-width comma, None
ModelValueSamples ==
    { StrV(<<>>), StrV(<< " " >>), StrV(<< "M", "1" >>), StrV(<< "M", "2" >>),
      StrV(<< " ", "M", "3" >>), StrV(<< "a", "FC" >>), NoneV }

CarInfoArgs ==
    [car_info :
         {Update(base, models) :
              base \in {EmptyDict,
                        [k \in {K_vmodel} |-> StrV(<< "M", "0" >>)],
                        [k \in {H_producer} |-> StrV(<< "A" >>)]},
              models \in UNION {[S -> ModelValueSamples] :
                                    S \in SUBSET {H_product_model,
                                                  H_vehicle_model, H_model}}},
     batch_number : {NoneV, StrV(<< "5" >>)}]

CallCarInfo ==
    /\ f_pc = "call"
    /\ f_ret' = process_car_info(f_arg.car_info, f_arg.batch_number)
    /\ f_pc' = "returned"
    /\ UNCHANGED << f_arg, notCall >>

InitCarInfo ==
    /\ f_pc = "call"
    /\ f_arg \in CarInfoArgs
    /\ f_ret = <<>>
    /\ ProcIdle /\ DirIdle /\ VerIdle /\ GridIdle /\ PoolIdle /\ BxIdle /\ MvIdle /\ CcIdle /\ AgainIdle

NextCarInfo == CallCarInfo

SpecCarInfo == InitCarInfo /\ [][NextCarInfo]_vars

\* ------------------------------------------------------------------------
\* One call of cn_to_arabic
\* ------------------------------------------------------------------------

MaxNumeralLen == 3

\* the word of a digit 1..9
CnDigit(d) ==
    << "yi", "er", "san", "si", "wu", "liu", "qi", "ba", "jiu" >>[d]

\* the word of the ones place: nothing for 0
CnOnes(d) == IF d = 0 THEN <<>> ELSE << CnDigit(d) >>

\* the standard numeral of n in 1..999: 十五, 二十六, 一百零五, 一百一十,
\* 九百九十六
StandardNumeral(n) ==
    IF n < 10 THEN << CnDigit(n) >>
    ELSE IF n < 20 THEN << "shi" >> \o CnOnes(n % 10)
    ELSE IF n < 100 THEN << CnDigit(n \div 10), "shi" >> \o CnOnes(n % 10)
    ELSE LET r == n % 100 IN
         << CnDigit(n \div 100), "bai" >>
             \o (IF r = 0 THEN <<>>
                 ELSE IF r < 10 THEN << "ling", CnDigit(r) >>
                 ELSE << CnDigit(r \div 10), "shi" >> \o CnOnes(r % 10))

\* numeral words, an ASCII digit and a character that is neither
NumeralAlphabet == { "yi", "er", "shi", "bai", "ling", "5", "x" }

\* the standard numerals of 1..999 and every text of up to MaxNumeralLen
\* characters of the alphabet
NumeralArgs ==
    {StandardNumeral(n) : n \in 1..999}
        \cup SeqsUpTo(NumeralAlphabet, MaxNumeralLen)

\* the call with nothing but the table lookup of its last line
CallNumeralLookupOnly ==
    /\ f_pc = "call"
    /\ f_ret' = (IF IsCnKey(f_arg) THEN CN_NUMS(f_arg[1]) ELSE f_arg)
    /\ f_pc' = "returned"
    /\ UNCHANGED << f_arg, notCall >>

\* f_ret is the str returned, or KeyError / ValueError when the call raises
CallNumeral ==
    /\ f_pc = "call"
    /\ f_ret' = cn_to_arabic(f_arg)
    /\ f_pc' = "returned"
    /\ UNCHANGED << f_arg, notCall >>

InitNumeral ==
    /\ f_pc = "call"
    /\ f_arg \in NumeralArgs
    /\ f_ret = <<>>
    /\ ProcIdle /\ DirIdle /\ VerIdle /\ GridIdle /\ PoolIdle /\ BxIdle /\ MvIdle /\ CcIdle /\ AgainIdle

NextNumeral == CallNumeral

SpecNumeral == InitNumeral /\ [][NextNumeral]_vars

\* ------------------------------------------------------------------------
\* One call of clean_text
\* ------------------------------------------------------------------------

MaxTextLen == 3

\* a letter, a blank, a tab, a comma, a full-width comma and semicolon
TextAlphabet == { "a", " ", "\t", ",", "FC", "FS" }

CallClean ==
    /\ f_pc = "call"
    /\ f_ret' = clean_text(f_arg)
    /\ f_pc' = "returned"
    /\ UNCHANGED << f_arg, notCall >>

InitClean ==
    /\ f_pc = "call"
    /\ f_arg \in SeqsUpTo(TextAlphabet, MaxTextLen)
    /\ f_ret = <<>>
    /\ ProcIdle /\ DirIdle /\ VerIdle /\ GridIdle /\ PoolIdle /\ BxIdle /\ MvIdle /\ CcIdle /\ AgainIdle

NextClean == CallClean

SpecClean == InitClean /\ [][NextClean]_vars

\* ------------------------------------------------------------------------
\* process_files (src/main.py): a pool of worker processes runs process_doc
\* on the files, the loop reads pool.imap in task order
\* ------------------------------------------------------------------------

MaxPoolFiles == 3

MaxCpu == 2

\* what DocProcessor(doc_path).process() does for a file: it returns n
\* records, returns none, or raises
PoolOutcomes ==
    {[kind |-> "records", n |-> n] : n \in 1..MaxRecordsPerFile}
        \cup {[kind |-> k, n |-> 0] : k \in {"empty", "raises"}}

\* process_doc(doc_path): the records, [] when the processing raised
process_doc(f, outcome) ==
    IF outcome.kind = "records" THEN [k \in 1..outcome.n |-> << f, k >>]
    ELSE <<>>

\* num_processes = min(mp.cpu_count(), len(doc_files))
num_processes ==
    IF pool_cpu < Len(pool_files) THEN pool_cpu ELSE Len(pool_files)

RunningTasks == {i \in 1..Len(pool_task) : pool_task[i] = "running"}

PoolStart(files, cpu) ==
    /\ pool_files = files
    /\ pool_cpu = cpu
    /\ pool_task = [i \in 1..Len(files) |-> "queued"]
    /\ pool_results = [i \in 1..Len(files) |-> <<>>]
    /\ pool_finished = <<>>
    /\ pool_next = 1
    /\ all_cars_data = <<>>
    /\ error_files = <<>>
    /\ pool_log = <<>>

\* a free worker takes the next task of the queue
WorkerTake ==
    /\ Cardinality(RunningTasks) < num_processes
    /\ \E i \in 1..Len(pool_task) :
           /\ pool_task[i] = "queued"
           /\ \A j \in 1..(i - 1) : pool_task[j] # "queued"
           /\ pool_task' = [pool_task EXCEPT ![i] = "running"]
    /\ UNCHANGED << pool_files, pool_cpu, pool_results, pool_finished,
                    pool_next, all_cars_data, error_files, pool_log, notPool >>

\* any running worker finishes its task; the result is stored under the
\* index of the task
WorkerFinish ==
    /\ \E i \in RunningTasks :
           /\ pool_task' = [pool_task EXCEPT ![i] = "done"]
           /\ pool_results' =
                  [pool_results EXCEPT ![i] = process_doc(i, pool_files[i])]
           /\ pool_finished' = Append(pool_finished, i)
    /\ UNCHANGED << pool_files, pool_cpu, pool_next, all_cars_data,
                    error_files, pool_log, notPool >>

\* the body of the loop with (doc_file, cars) given
LoopBody(doc_file, cars_) ==
    /\ IF cars_ # <<>>
       THEN /\ all_cars_data' = all_cars_data \o cars_
            /\ error_files' = error_files
       ELSE /\ error_files' = Append(error_files, doc_file)
            /\ all_cars_data' = all_cars_data
    /\ pool_log' = Append(pool_log, [file |-> doc_file, cars |-> cars_])
    /\ pool_next' = pool_next + 1

\* the loop over pool.imap_unordered instead: the next result is the one
\* that finished next
LoopStepUnordered ==
    /\ pool_next <= Len(pool_files)
    /\ pool_next <= Len(pool_finished)
    /\ LoopBody(pool_next, pool_results[pool_finished[pool_next]])
    /\ UNCHANGED << pool_files, pool_cpu, pool_task, pool_results,
                    pool_finished, notPool >>

\* one step of "for doc_file, cars in zip(doc_files, pool.imap(...))": the
\* iterator of imap waits for the result of the next task in task order
LoopStep ==
    /\ pool_next <= Len(pool_files)
    /\ pool_task[pool_next] = "done"
    /\ LoopBody(pool_next, pool_results[pool_next])
    /\ UNCHANGED << pool_files, pool_cpu, pool_task, pool_results,
                    pool_finished, notPool >>

InitPool ==
    /\ \E files \in SeqsUpTo(PoolOutcomes, MaxPoolFiles) \ {<<>>},
          cpu \in 1..MaxCpu : PoolStart(files, cpu)
    /\ ProcIdle /\ DirIdle /\ VerIdle /\ GridIdle /\ CallIdle /\ BxIdle /\ MvIdle /\ CcIdle /\ AgainIdle

NextPool == WorkerTake \/ WorkerFinish \/ LoopStep

SpecPool == InitPool /\ [][NextPool]_vars

\* ------------------------------------------------------------------------
\* BatchExtractor.extract (src/doc_processor/extractors/batch_extractor.py)
\* and extract_count_from_text (src/doc_processor/utils/text_utils.py),
\* whose COUNT_PATTERN is the count_pattern of extract_declared_count
\* ------------------------------------------------------------------------

MaxParagraphs == 3

extract_count_from_text(text) ==
    IF CountPatternMatches(text)
    THEN IntV(ParseInt(CountPatternGroup(text)))
    ELSE NoneV

\* search_limit = min(self.max_paragraphs, len(self.doc.paragraphs))
search_limit ==
    IF bx_max_paragraphs < Len(bx_paragraphs) THEN bx_max_paragraphs
    ELSE Len(bx_paragraphs)

\* any(word in text for word in ["共计", "总计", "合计"])
HasTotalWord(text) == \E w \in TotalWords : Contains(text, w)

\* the batch number after a paragraph with a non-empty text
BatchAfter(batch, text) ==
    IF ~Truthy(batch) /\ HasChar(text, "pi")
    THEN extract_batch_number(text)
    ELSE batch

\* the declared count after a paragraph with a non-empty text
DeclaredAfter(declared, text) ==
    IF ~Truthy(declared) /\ HasTotalWord(text)
    THEN extract_count_from_text(text)
    ELSE declared

\* one iteration of the loop over the first search_limit paragraphs
ExtractIterate ==
    /\ bx_pc = "loop"
    /\ bx_i <= search_limit
    /\ LET text == strip(bx_paragraphs[bx_i]) IN
       IF text = <<>>
       THEN /\ bx_i' = bx_i + 1
            /\ UNCHANGED << bx_batch_number, bx_declared_count, bx_pc >>
       ELSE /\ bx_batch_number' = BatchAfter(bx_batch_number, text)
            /\ bx_declared_count' = DeclaredAfter(bx_declared_count, text)
            /\ IF Truthy(bx_batch_number') /\ Truthy(bx_declared_count')
               THEN bx_pc' = "break" /\ bx_i' = bx_i
               ELSE bx_pc' = "loop" /\ bx_i' = bx_i + 1
    /\ UNCHANGED << bx_paragraphs, bx_max_paragraphs, notBx >>

\* return batch_number, declared_count
ExtractReturn ==
    /\ \/ bx_pc = "loop" /\ bx_i > search_limit
       \/ bx_pc = "break"
    /\ bx_pc' = "returned"
    /\ UNCHANGED << bx_paragraphs, bx_max_paragraphs, bx_i, bx_batch_number,
                    bx_declared_count, notBx >>

\* 第五批, 共计0款, 合计5款, 总计12辆, 关于共计, 关于, a blank paragraph
BxParagraphSamples ==
    { << "di", "wu", "pi" >>,
      T_gongji \o << "0", "kuan" >>,
      T_heji \o << "5", "kuan" >>,
      T_zongji \o << "1", "2", "liang" >>,
      << "guan", "yu" >> \o T_gongji,
      << "guan", "yu" >>,
      << " " >> }

InitBx ==
    /\ bx_paragraphs \in SeqsUpTo(BxParagraphSamples, MaxParagraphs)
    /\ bx_max_paragraphs \in 1..MaxParagraphs
    /\ bx_i = 1
    /\ bx_batch_number = NoneV
    /\ bx_declared_count = NoneV
    /\ bx_pc = "loop"
    /\ ProcIdle /\ DirIdle /\ VerIdle /\ GridIdle /\ CallIdle /\ PoolIdle /\ MvIdle /\ CcIdle /\ AgainIdle

NextBx == ExtractIterate \/ ExtractReturn

SpecBx == InitBx /\ [][NextBx]_vars

\* ------------------------------------------------------------------------
\* DocProcessor.verify_batch_consistency of src/main.py, called on a
\* processor that was scanned.  After the declared count is looked up the
\* method groups and compares as verify_batch_consistency of
\* src/src/batch/validator.py does, statement by statement.
\* ------------------------------------------------------------------------

MaxCalls == 2

\* self._extract_declared_count(): None when the check is switched off or
\* the file is larger than 50 MB, else the count of the first paragraphs
\* or of the total rows of the first tables
ExtractDeclaredCount(blocks, skip_count_check, large_file) ==
    IF skip_count_check \/ large_file THEN NoneV
    ELSE LET from_paragraphs ==
                 ParagraphCount(Prefix(SelectKind(blocks, "p"),
                                       max_paragraphs_to_search))
         IN  IF from_paragraphs # NoneV THEN from_paragraphs
             ELSE TablesCount(Prefix(SelectKind(blocks, "tbl"),
                                     max_tables_to_search))

\* self.declared_count after the lookup of the method
DeclaredCountLookedUp ==
    IF mv_declared_count = NoneV
    THEN ExtractDeclaredCount(mv_doc, mv_skip_count_check, mv_large_file)
    ELSE mv_declared_count

\* one call of self.verify_batch_consistency()
MainVerify ==
    /\ Len(mv_reports) < MaxCalls
    /\ mv_doc # <<>>
    /\ IF ~Truthy(mv_batch_number)
       THEN /\ mv_reports' = Append(mv_reports, [status |-> "no_batch"])
            /\ mv_declared_count' = mv_declared_count
       ELSE /\ mv_declared_count' = DeclaredCountLookedUp
            /\ mv_reports' =
                   Append(mv_reports,
                          verify_batch_consistency(mv_cars, mv_batch_number,
                                                   DeclaredCountLookedUp))
    /\ UNCHANGED << mv_doc, mv_skip_count_check, mv_large_file,
                    mv_batch_number, mv_cars, notMv >>

\* documents: 共计2款 in a paragraph, a table with a total row, neither
MainDocSamples ==
    { << Para(T_gongji \o << "2", "kuan" >>) >>,
      << Tbl(<< << H_seq, H_company >>, << T_heji, << "3" >> >> >>, FALSE) >>,
      << Para(<< "guan", "yu" >>) >> }

InitMv ==
    /\ mv_doc \in MainDocSamples
    /\ mv_skip_count_check \in BOOLEAN
    /\ mv_large_file \in BOOLEAN
    /\ mv_batch_number \in BatchNumberSamples
    /\ mv_declared_count \in {NoneV, IntV(0), IntV(2)}
    /\ mv_cars \in SeqsUpTo(CarSamples, MaxRecordsPerFile)
    /\ mv_reports = <<>>
    /\ ProcIdle /\ DirIdle /\ VerIdle /\ GridIdle /\ CallIdle /\ PoolIdle /\ BxIdle /\ CcIdle /\ AgainIdle

NextMv == MainVerify

SpecMv == InitMv /\ [][NextMv]_vars

\* ------------------------------------------------------------------------
\* DocProcessor._check_and_cleanup_cache (src/main.py), called after every
\* data row that is read, while time passes and results are stored in the
\* cache.  Times are whole seconds, sizes whole characters.
\* ------------------------------------------------------------------------

MaxTime == 4

MaxChecks == 3

MaxStored == 2

MaxSize == 2

\* sum(len(str(v)) for v in self._table_cache.values())
RECURSIVE cache_size(_)
cache_size(cache) ==
    IF cache = <<>> THEN 0 ELSE Head(cache) + cache_size(Tail(cache))

\* the clock moves on
Tick ==
    /\ cc_now < MaxTime
    /\ cc_now' = cc_now + 1
    /\ UNCHANGED << cc_table_cache, cc_last_cache_cleanup,
                    cc_cleanup_interval, cc_cache_size_limit, cc_checks,
                    cc_stored, notCc >>

\* self._table_cache[table_index] = table_cars, for a new table
CacheStore ==
    /\ cc_stored < MaxStored
    /\ \E size \in 1..MaxSize :
           cc_table_cache' = Append(cc_table_cache, size)
    /\ cc_stored' = cc_stored + 1
    /\ UNCHANGED << cc_now, cc_last_cache_cleanup, cc_cleanup_interval,
                    cc_cache_size_limit, cc_checks, notCc >>

\* the check without the test of the size: the cache is cleared whenever
\* the interval has passed
CheckAndCleanupAnySize ==
    /\ cc_checks < MaxChecks
    /\ cc_checks' = cc_checks + 1
    /\ IF cc_now - cc_last_cache_cleanup > cc_cleanup_interval
       THEN /\ cc_table_cache' = <<>>
            /\ cc_last_cache_cleanup' = cc_now
       ELSE UNCHANGED << cc_table_cache, cc_last_cache_cleanup >>
    /\ UNCHANGED << cc_now, cc_cleanup_interval, cc_cache_size_limit,
                    cc_stored, notCc >>

\* one call of self._check_and_cleanup_cache()
CheckAndCleanup ==
    /\ cc_checks < MaxChecks
    /\ cc_checks' = cc_checks + 1
    /\ IF cc_now - cc_last_cache_cleanup > cc_cleanup_interval
       THEN /\ cc_table_cache' =
                   IF cache_size(cc_table_cache) > cc_cache_size_limit
                   THEN <<>>
                   ELSE cc_table_cache
            /\ cc_last_cache_cleanup' = cc_now
       ELSE UNCHANGED << cc_table_cache, cc_last_cache_cleanup >>
    /\ UNCHANGED << cc_now, cc_cleanup_interval, cc_cache_size_limit,
                    cc_stored, notCc >>

\* after __init__: an empty cache, the last check at the time of creation
InitCc ==
    /\ cc_table_cache = <<>>
    /\ cc_now = 0
    /\ cc_last_cache_cleanup = 0
    /\ cc_cleanup_interval \in 1..(MaxTime - 2)
    /\ cc_cache_size_limit \in 1..MaxSize
    /\ cc_checks = 0
    /\ cc_stored = 0
    /\ ProcIdle /\ DirIdle /\ VerIdle /\ GridIdle /\ CallIdle /\ PoolIdle /\ BxIdle /\ MvIdle /\ AgainIdle

NextCc == Tick \/ CacheStore \/ CheckAndCleanup

SpecCc == InitCc /\ [][NextCc]_vars

\* ------------------------------------------------------------------------
\* One call of extract_batch_number
\* ------------------------------------------------------------------------

MaxBatchTextLen == 4

\* 第, 批, numeral words, an ASCII digit and a character that is none of
\* these
BatchAlphabet == { "di", "pi", "yi", "shi", "ling", "5", "x" }

CallBatchNumber ==
    /\ f_pc = "call"
    /\ f_ret' = extract_batch_number(f_arg)
    /\ f_pc' = "returned"
    /\ UNCHANGED << f_arg, notCall >>

InitBatchNumber ==
    /\ f_pc = "call"
    /\ f_arg \in SeqsUpTo(BatchAlphabet, MaxBatchTextLen)
    /\ f_ret = <<>>
    /\ ProcIdle /\ DirIdle /\ VerIdle /\ GridIdle /\ PoolIdle /\ BxIdle /\ MvIdle /\ CcIdle /\ AgainIdle

NextBatchNumber == CallBatchNumber

SpecBatchNumber == InitBatchNumber /\ [][NextBatchNumber]_vars

\* ------------------------------------------------------------------------
\* DocProcessor.process called again on the same processor: the locals of
\* process start anew, the fields of the processor are as the call before
\* left them
\* ------------------------------------------------------------------------

MaxRepeats == 1

\* the second call reaches the loop: table_count, row_count and error_count
\* are 0 again, self.cars and the context are not assigned
ProcessAgain ==
    /\ pc = "done"
    /\ repeat_calls < MaxRepeats
    /\ repeat_calls' = repeat_calls + 1
    /\ first_result' = IF repeat_calls = 0 THEN cars ELSE first_result
    /\ pc' = "scan"
    /\ pos' = 1
    /\ table_count' = 0 /\ row_count' = 0 /\ error_count' = 0
    /\ UNCHANGED << doc, batch_number, current_category, current_section,
                    current_subsection, current_numbered_section, nodes, cars,
                    declared_count, consistency_result, verify_log,
                    table_cache, dirVars, verVars,
                    gridVars, callVars, poolVars, bxVars, mvVars, ccVars >>

\* the blocks of the documents processed twice: the batch paragraph, a
\* category marker, a table whose rows are accepted and one that is skipped
TwiceBlockSamples ==
    { Para(<< "di", "wu", "pi" >>), Para(T_energy_saving_cars),
      Tbl(TableComplete, FALSE), Tbl(TableNoRequired, FALSE) }

InitTwice == (\E d \in SeqsUpTo(TwiceBlockSamples, MaxBlocks) : ProcStart(d))
                 /\ DirIdle /\ VerIdle /\ GridIdle /\ CallIdle /\ PoolIdle
                 /\ BxIdle /\ MvIdle /\ CcIdle /\ AgainIdle

NextTwice == Next \/ ProcessAgain

SpecTwice == InitTwice /\ [][NextTwice]_vars


\* ------------------------------------------------------------------------
\* calculate_statistics: the two counts by energytype
\* ------------------------------------------------------------------------

\* car.get("energytype")
energytype_of(car) ==
    IF HasKey(car, K_energytype) THEN car[K_energytype] ELSE NoneV

energy_saving_count(cars_) ==
    Cardinality({i \in 1..Len(cars_) : energytype_of(cars_[i]) = IntV(2)})

new_energy_count(cars_) ==
    Cardinality({i \in 1..Len(cars_) : energytype_of(cars_[i]) = IntV(1)})

\* ------------------------------------------------------------------------
\* Properties of DocProcessor.process (Spec)
\* ------------------------------------------------------------------------

\* the blocks of d that are tables, in document order
TablesOf(d) == SelectKind(d, "tbl")

\* the header row names the column
HeaderHas(table, name) ==
    /\ table # <<>>
    /\ \E i \in 1..Len(table[1]) : strip(table[1][i]) = name

\* the table's header row has both required columns, 序号 and 企业名称
HasRequiredColumns(table) ==
    HeaderHas(table, H_seq) /\ HeaderHas(table, H_company)

\* C2: a table whose header row lacks the column 序号 or the column
\* 企业名称 contributes no record: every record of the list comes from a
\* table (the one its table_id counts) that has both columns.
C2_RequiredColumns ==
    \A r \in 1..Len(cars) :
        LET id == cars[r][K_table_id].n IN
        /\ id \in 1..Len(TablesOf(doc))
        /\ HasRequiredColumns(TablesOf(doc)[id].rows)

\* reading the grid of the table fails (the exception extract_table_cells_fast
\* catches)
GridReadFails(table) == GridLoop(GridStart, table).raised

\* the blocks scanned so far whose table failed: the grid could not be
\* read, or extracting the rows raised
FailedTables(d, n) ==
    {p \in 1..n : IsTbl(d[p]) /\ (d[p].raises \/ GridReadFails(d[p].rows))}

\* C3: a table whose grid read or row extraction fails contributes no
\* record, each such failure is counted in the scan's error count, and the
\* scan goes on to the last block of the document.
C3_FailureCounted ==
    pc = "done" =>
        /\ pos = Len(doc) + 1
        /\ error_count = Cardinality(FailedTables(doc, Len(doc)))
        /\ \A r \in 1..Len(cars) : \A p \in FailedTables(doc, Len(doc)) :
               cars[r][K_table_id].n # TableIndexAt(doc, p) + 1

\* the paragraph text the scan looks at
TextAt(d, q) == strip(d[q].text)

\* a category-marker paragraph: it contains 节能型汽车 or 新能源汽车
IsMarker(d, q) ==
    /\ IsPara(d[q])
    /\ \/ Contains(TextAt(d, q), T_energy_saving_cars)
       \/ Contains(TextAt(d, q), T_new_energy_cars)

\* a sub-category heading: a paragraph that starts with （ and has no digit
IsHeading(d, q) ==
    /\ IsPara(d[q])
    /\ startswith(TextAt(d, q), << "LP" >>)
    /\ ~HasDigit(TextAt(d, q))

\* the largest member of a set of positions, 0 for the empty set
LastOf(S) == IF S = {} THEN 0 ELSE CHOOSE q \in S : \A x \in S : x <= q

\* the last marker paragraph before block p, 0 if there is none
LastMarker(d, p) == LastOf({q \in 1..(p - 1) : IsMarker(d, q)})

\* the category that marker sets
MarkerCategory(d, p) ==
    LET q == LastMarker(d, p) IN
    IF q = 0 THEN NoneV
    ELSE IF Contains(TextAt(d, q), T_energy_saving_cars)
         THEN StrV(C_energy_saving)
         ELSE StrV(C_new_energy)

\* the last sub-category heading after that marker and before block p
LastHeading(d, p) ==
    LastOf({q \in (LastMarker(d, p) + 1)..(p - 1) : IsHeading(d, q)})

\* the title of that heading, none if there is no such heading
HeadingTitle(d, p) ==
    LET q == LastHeading(d, p) IN
    IF q = 0 THEN NoneV ELSE StrV(TextAt(d, q))

\* a value in canonical text form: clean_text of a text, none for none
Canonical(x) == IF IsStr(x) THEN StrV(clean_text(x.v)) ELSE x

\* the data rows of the grid that give a record: those with a non-blank cell
RECURSIVE RecordRows(_)
RecordRows(rows) ==
    IF rows = <<>> THEN <<>>
    ELSE IF AnyNonBlank(Head(rows))
         THEN << Head(rows) >> \o RecordRows(Tail(rows))
         ELSE RecordRows(Tail(rows))

\* the cleaned names of the header cells of the grid that are not empty
HeaderNames(grid_) == IF grid_ = <<>> THEN <<>> ELSE CleanHeaders(grid_[1])

\* the canonical text of the row's cell in the last column called name
OwnCell(names, row, name) ==
    LET j == LastOf({i \in 1..Len(names) : names[i] = name})
        cell == IF j <= Len(row) THEN row[j] ELSE <<>>
    IN  StrV(clean_text(clean_text(cell)))

\* the scan is at a table
AtTable == pc = "scan" /\ pos <= Len(doc) /\ IsTbl(doc[pos])

\* the records the step adds to the list
AddedRecords == (Len(cars) + 1)..Len(cars')

Yields(d, q) ==
    /\ IsPara(d[q])
    /\ TextAt(d, q) # <<>>
    /\ Truthy(extract_batch_number(TextAt(d, q)))

\* the smallest member of a set of positions, 0 for the empty set
FirstOf(S) == IF S = {} THEN 0 ELSE CHOOSE q \in S : \A x \in S : q <= x

\* the first of the blocks 1..n whose paragraph yields a batch number
FirstYield(d, n) == FirstOf({q \in 1..n : Yields(d, q)})

\* C5: at every point of the scan the batch number is the one the first
\* yielding paragraph scanned so far gave (none before any yielded): once
\* set, no later paragraph or table changes it, and the value at the end
\* is that of the first paragraph that yielded one.
C5_BatchNumberSetOnce ==
    pc \in {"scan", "done"} =>
        LET q == FirstYield(doc, pos - 1) IN
        IF q = 0 THEN ~Truthy(batch_number)
        ELSE batch_number = extract_batch_number(TextAt(doc, q))

\* C5 happens: 第五批 was scanned, then 关于三项目录 (which alone gives
\* 3) and a table, and the batch number at the end is still 5
C5_Witness ==
    /\ pc = "done"
    /\ Len(doc) = 3
    /\ doc[1] = Para(<< "di", "wu", "pi" >>)
    /\ doc[2] = Para(<< "guan", "yu", "san", "xiang", "mu", "lu" >>)
    /\ IsTbl(doc[3])
    /\ extract_batch_number(TextAt(doc, 2)) = StrV(<< "3" >>)
    /\ batch_number = StrV(<< "5" >>)

\* the paragraph matches the pattern 第<numeral>批
MatchesBatchPattern(d, q) ==
    IsPara(d[q]) /\ BatchPatternMatches(TextAt(d, q))

\* C6: if a paragraph of the document matches 第<numeral>批, the batch
\* number at the end of the scan is the normalized numeral of the first
\* such paragraph; a bare run of numerals decides only when no paragraph
\* matches the pattern.
C6_PatternBeforeFallback ==
    pc = "done" =>
        LET q == FirstOf({x \in 1..Len(doc) : MatchesBatchPattern(doc, x)}) IN
        q # 0 => batch_number = extract_batch_number(TextAt(doc, q))

\* the keys every record is to have: batch, category, sub_type, table_id,
\* vmodel, 企业名称, 品牌, 序号
GuaranteedKeys ==
    {K_batch, K_category, K_sub_type, K_table_id, K_vmodel, H_company,
     H_brand, H_seq}



\* C14: every record returned by process has the keys batch, category,
\* sub_type, table_id, vmodel, 企业名称, 品牌 and 序号, whatever table it
\* was extracted from.
C14_GuaranteedKeys ==
    pc = "done" =>
        \A r \in 1..Len(cars) : GuaranteedKeys \subseteq DOMAIN cars[r]

\* ------------------------------------------------------------------------
\* Properties of verify_batch_consistency (SpecVerify) and of the report
\* ------------------------------------------------------------------------

\* the call has returned
VerifyReturned == v_result \notin {NoResult, Idle}

\* C7: with a non-empty batch number and a declared count d, the status is
\* match exactly when the number of records is d, and otherwise mismatch
\* with difference d minus the number of records.
C7_MatchOrMismatch ==
    (/\ VerifyReturned
     /\ Truthy(v_batch_number)
     /\ v_declared_count # NoneV) =>
        LET d == v_declared_count.n IN
        /\ v_result.status = "match" <=> Len(v_cars) = d
        /\ Len(v_cars) # d =>
               /\ v_result.status = "mismatch"
               /\ v_result.difference = d - Len(v_cars)

\* C7 happens: declared 5 with 3 records, two of them of one table, gives
\* mismatch with difference 2
C7_Witness ==
    /\ VerifyReturned
    /\ Truthy(v_batch_number)
    /\ v_declared_count = IntV(5)
    /\ Len(v_cars) = 3
    /\ v_cars[1] = v_cars[3]
    /\ v_result.status = "mismatch"
    /\ v_result.difference = 2

\* one run of DocProcessor.process, or one call of verify_batch_consistency
\* on its own
InitReport == Init \/ InitVerify

NextReport == Next \/ NextVerify

SpecReport == InitReport /\ [][NextReport]_vars

\* C8: when no paragraph of the document yields a batch number, the report
\* computed at the end of process has status no_batch, whatever the records
\* and the declared count; and every call of verify_batch_consistency with
\* a missing (None) or empty batch number returns no_batch.
C8_NoBatch ==
    /\ (pc = "done" /\ FirstYield(doc, Len(doc)) = 0) =>
           consistency_result.status = "no_batch"
    /\ (VerifyReturned /\ v_batch_number \in {NoneV, StrV(<<>>)}) =>
           v_result.status = "no_batch"

\* C8 happens: a run on a table with two records and the paragraph 共计2款
\* found no batch number, has records and a declared count, and reports
\* no_batch
C8_Witness ==
    /\ pc = "done"
    /\ FirstYield(doc, Len(doc)) = 0
    /\ Len(cars) = 2
    /\ declared_count = IntV(2)
    /\ consistency_result.status = "no_batch"

\* C9: in one run verify_batch_consistency is called exactly once, after
\* the last block was scanned, with the complete record list: no call
\* while blocks remain, and the one call made has seen every block and
\* the records the run returns.
C9_VerifiedOnceAtEnd ==
    /\ pc = "scan" => verify_log = <<>>
    /\ pc = "done" =>
           /\ Len(verify_log) = 1
           /\ verify_log[1].pos = Len(doc) + 1
           /\ verify_log[1].cars = cars
           /\ pos = Len(doc) + 1

\* C9 happens: a run over a paragraph and two tables made its one call with
\* the records of both tables
C9_Witness ==
    /\ pc = "done"
    /\ Len(doc) = 3
    /\ IsPara(doc[1]) /\ IsTbl(doc[2]) /\ IsTbl(doc[3])
    /\ Len(verify_log) = 1
    /\ Len(verify_log[1].cars) = 4
    /\ verify_log[1].cars[1][K_table_id] = IntV(1)
    /\ verify_log[1].cars[4][K_table_id] = IntV(2)

\* ------------------------------------------------------------------------
\* Properties of TableExtractor.extract_table_cells_fast (SpecGrid)
\* ------------------------------------------------------------------------

\* a data row the grid retains: some cell is non-blank and no cell starts
\* with 合计 or 总计
IsRetained(row) == AnyNonBlank(row) /\ ~AnyTotal(row)

\* the data rows of the table that are retained, in order
RECURSIVE RetainedRows(_)
RetainedRows(rows) ==
    IF rows = <<>> THEN <<>>
    ELSE IF IsRetained(Head(rows))
         THEN << Head(rows) >> \o RetainedRows(Tail(rows))
         ELSE RetainedRows(Tail(rows))

\* the text of cell c of a row, empty when the row has no such cell
CellText(row, c) == IF c <= Len(row) THEN strip(row[c]) ELSE <<>>

\* the value of column c for the k-th retained row: its own cell when
\* non-empty, else the most recent non-empty one of the earlier retained
\* rows, empty if there is none
StickyValue(kept, k, c) ==
    LET j == LastOf({x \in 1..k : CellText(kept[x], c) # <<>>}) IN
    IF j = 0 THEN <<>> ELSE CellText(kept[j], c)

\* C10: in the grid a call returns, the 2nd and the 3rd cell of every
\* retained data row are the row's own cell when it is non-empty and
\* otherwise the most recent non-empty value of that column among the
\* earlier retained rows of the same table (empty if none): no value
\* comes from a table read before.
C10_StickyColumns ==
    \A c \in 1..Len(g_results) :
        LET returned == g_results[c]
            kept == RetainedRows(Tail(g_tables[c]))
        IN  returned # <<>> =>
                /\ Len(returned) = Len(kept) + 1
                /\ \A k \in 1..Len(kept) :
                       /\ returned[k + 1][2] = StickyValue(kept, k, 2)
                       /\ returned[k + 1][3] = StickyValue(kept, k, 3)

\* C10 happens: after a table that ends with company Z and brand Y, the
\* table with the rows [2, , , N], [1, A, B, M], [2, , , N] was read: its
\* first row keeps both cells empty and its third has A and B
C10_Witness ==
    /\ Len(g_results) = 2
    /\ Len(g_results[1]) = 2
    /\ g_results[1][2][2] = << "Z" >>
    /\ Len(g_results[2]) = 4
    /\ g_tables[2][2][2] = <<>> /\ g_tables[2][4][2] = <<>>
    /\ g_results[2][2][2] = <<>> /\ g_results[2][2][3] = <<>>
    /\ g_results[2][4][2] = << "A" >> /\ g_results[2][4][3] = << "B" >>

\* the first non-empty cell of the row (empty for an all-empty row)
FirstNonEmptyCell(row) ==
    LET j == FirstOf({i \in 1..Len(row) : IsNonBlank(row[i])}) IN
    IF j = 0 THEN <<>> ELSE strip(row[j])

\* a data row that is not entirely empty and whose first non-empty cell
\* does not begin with 合计 or 总计
IsDataRow(row) == AnyNonBlank(row) /\ ~IsTotalCell(FirstNonEmptyCell(row))

\* the rows of a table that are such data rows, in source order
RECURSIVE DataRows(_)
DataRows(rows) ==
    IF rows = <<>> THEN <<>>
    ELSE IF IsDataRow(Head(rows))
         THEN << Head(rows) >> \o DataRows(Tail(rows))
         ELSE DataRows(Tail(rows))

\* C11: the data rows of the grid a call returns are, in source order,
\* exactly the data rows of the table that are not entirely empty and
\* whose first non-empty cell does not begin with 合计 or 总计: as many
\* rows, each with the first cell of its source row.
C11_RowsOfGrid ==
    \A c \in 1..Len(g_results) :
        LET returned == g_results[c]
            want == DataRows(Tail(g_tables[c]))
        IN  /\ Len(returned) = Len(want) + 1
            /\ \A k \in 1..Len(want) :
                   returned[k + 1][1] = CellText(want[k], 1)

\* the blocks of d that are tables read without an exception of the
\* document library
ReadableTables(d) == {p \in 1..Len(d) : IsTbl(d[p]) /\ ~d[p].raises}

\* the records of the list that carry the table id
RecordsOfTable(cars_, id) ==
    {r \in 1..Len(cars_) : cars_[r][K_table_id] = IntV(id)}

\* C12: a data row shorter or longer than the header never makes the
\* extraction of its table fail: whatever the row lengths, every non-empty
\* non-total data row of a table gives one record.
C12_RowLengthRepaired ==
    pc = "done" =>
        \A p \in ReadableTables(doc) :
            Cardinality(RecordsOfTable(cars, TableIndexAt(doc, p) + 1))
                = Len(RetainedRows(Tail(doc[p].rows)))

\* ------------------------------------------------------------------------
\* Properties of TableExtractor.extract_car_info (SpecExtract)
\* ------------------------------------------------------------------------

\* the header row of the table as it is in the source, cell by cell
SourceHeader(table) == [j \in 1..Len(table[1]) |-> strip(table[1][j])]

\* columns j and j + 1 of the header are the pair 型式, 档位数
PairAt(header, j) ==
    j + 1 <= Len(header) /\ header[j] = H_type /\ header[j + 1] = H_gears

\* column j is one of the two columns of such a pair
InPair(header, j) == PairAt(header, j) \/ (j > 1 /\ PairAt(header, j - 1))

\* the names the record keeps as they are in the header (the model and
\* alias names are stored under another key)
KeptNames == {H_seq, H_company, H_brand, H_displacement}

\* C13: in every record the value under a header is the canonical text of
\* the cell in that header's own source column, also for a header to the
\* right of the pair 型式, 档位数 or of an empty header cell; the pair is
\* replaced by the header 变速器, whose value combines the two cells.
C13_OwnColumn ==
    f_pc = "returned" =>
        LET header == SourceHeader(f_arg.table)
            rows == RecordRows(Tail(extract_table_cells_fast(f_arg.table)))
        IN  /\ Len(f_ret) = Len(rows)
            /\ \A k \in 1..Len(f_ret) : \A j \in 1..Len(header) :
                   /\ (header[j] \in KeptNames /\ ~InPair(header, j)) =>
                          /\ header[j] \in DOMAIN f_ret[k]
                          /\ f_ret[k][header[j]] =
                                 StrV(clean_text(clean_text(CellText(rows[k], j))))
                   /\ PairAt(header, j) =>
                          /\ H_transmission \in DOMAIN f_ret[k]
                          /\ Contains(f_ret[k][H_transmission].v,
                                      CellText(rows[k], j))
                          /\ Contains(f_ret[k][H_transmission].v,
                                      CellText(rows[k], j + 1))


\* ------------------------------------------------------------------------
\* Properties of validate_car_info (SpecValidate)
\* ------------------------------------------------------------------------

\* the row is neither empty nor a total row
IsOrdinaryRow(car_info) ==
    /\ \E k \in DOMAIN car_info : strip(PyStr(car_info[k])) # <<>>
    /\ \A k \in DOMAIN car_info : ~IsTotalCell(PyStr(car_info[k]))

\* category, sub_type, the car-type code and batch
StructurallyRequired == {K_category, K_sub_type, K_energytype, K_batch}

\* C15: a non-empty, non-total row is accepted only if category, sub_type,
\* energytype and batch are all present; when one of them is missing the
\* call returns (False, "缺少必要字段: <field>", None), <field> being one
\* of the missing ones.
C15_RequiredFields ==
    (f_pc = "returned" /\ IsOrdinaryRow(f_arg) /\ ~f_ret.raised) =>
        LET missing == StructurallyRequired \ DOMAIN f_arg IN
        /\ f_ret.valid => missing = {}
        /\ missing # {} =>
               /\ ~f_ret.valid
               /\ f_ret.fixed = <<>>
               /\ \E field \in missing : f_ret.reason = R_missing(field)

\* the designated numeric fields that hold a str in the row
NumericStrFields(car_info) ==
    {numeric_fields[i] : i \in 1..Len(numeric_fields)}
        \cap {k \in DOMAIN car_info : IsStr(car_info[k])}

\* the text can be coerced to a number: a numeral, or numerals between "/"
IsCoercible(s) ==
    IF HasChar(s, "/")
    THEN LET parts == split(s, "/") IN
         \A i \in 1..Len(parts) : IsFloatText(parts[i])
    ELSE IsFloatText(s)

\* C16: for every str value of a designated numeric field the call returns
\* normally; a row with all required fields whose value cannot be coerced
\* (a slash-separated value with a non-numeric or empty part included) is
\* accepted with that field cleared to the empty text.
C16_UncoercibleCleared ==
    (f_pc = "returned" /\ IsOrdinaryRow(f_arg)
         /\ NumericStrFields(f_arg) # {}) =>
        /\ ~f_ret.raised
        /\ \A field \in NumericStrFields(f_arg) :
               (~IsCoercible(f_arg[field].v)
                    /\ StructurallyRequired \subseteq DOMAIN f_arg) =>
                   /\ f_ret.valid
                   /\ f_ret.fixed # <<>>
                   /\ f_ret.fixed[1][field] = StrV(<<>>)


\* ------------------------------------------------------------------------
\* Properties of process_car_info (SpecCarInfo)
\* ------------------------------------------------------------------------

\* 产品型号, 车辆型号, 型号, in that order
ModelKeys == << H_product_model, H_vehicle_model, H_model >>

\* the positions of ModelKeys whose key holds a non-blank value in the record
NonBlankModels(car_info) ==
    {i \in 1..Len(ModelKeys) :
        /\ ModelKeys[i] \in DOMAIN car_info
        /\ car_info[ModelKeys[i]] # NoneV
        /\ strip(PyStr(car_info[ModelKeys[i]])) # <<>>}

\* C17: after process_car_info none of the keys 产品型号, 车辆型号, 型号
\* remains, and if one of them held a non-blank value then vmodel is the
\* canonicalized first non-blank value among them in that order.
C17_ModelMerged ==
    f_pc = "returned" =>
        /\ \A i \in 1..Len(ModelKeys) : ModelKeys[i] \notin DOMAIN f_ret
        /\ NonBlankModels(f_arg.car_info) # {} =>
               LET first == CHOOSE i \in NonBlankModels(f_arg.car_info) :
                                \A j \in NonBlankModels(f_arg.car_info) : i <= j
               IN  /\ K_vmodel \in DOMAIN f_ret
                   /\ f_ret[K_vmodel] =
                          Canonical(f_arg.car_info[ModelKeys[first]])


\* ------------------------------------------------------------------------
\* Properties of cn_to_arabic (SpecNumeral)
\* ------------------------------------------------------------------------

\* C18: for every n from 1 to 999, cn_to_arabic applied to the standard
\* numeral of n returns the decimal string of n.
C18_StandardNumerals ==
    f_pc = "returned" =>
        \A n \in 1..999 : f_arg = StandardNumeral(n) => f_ret = FormatInt(n)

\* 九百九十六 gave 996, 一百零五 is among the inputs
C18_Witness ==
    /\ f_pc = "returned"
    /\ f_arg = << "jiu", "bai", "jiu", "shi", "liu" >>
    /\ f_arg = StandardNumeral(996)
    /\ f_ret = << "9", "9", "6" >>

\* the text has a character that is neither a numeral word nor a digit
HasForeignChar(s) ==
    \E i \in 1..Len(s) : s[i] \notin CnNumeralChars \cup AsciiDigits

\* C19: cn_to_arabic returns a str for every input str and never raises;
\* an input outside the numeral grammar, such as numeral words mixed with
\* other characters, is returned unchanged.
C19_NeverRaises ==
    f_pc = "returned" =>
        /\ ~IsError(f_ret)
        /\ HasForeignChar(f_arg) => f_ret = f_arg


\* ------------------------------------------------------------------------
\* Properties of clean_text (SpecClean)
\* ------------------------------------------------------------------------

\* C20: clean_text is idempotent: clean_text(clean_text(x)) = clean_text(x)
\* for every str x, those with full-width commas or semicolons included.
C20_Idempotent ==
    f_pc = "returned" => clean_text(f_ret) = f_ret


\* ------------------------------------------------------------------------
\* Properties of process_files (SpecPool)
\* ------------------------------------------------------------------------

\* the results of the files 1..k one after the other
RECURSIVE ResultsUpTo(_)
ResultsUpTo(k) ==
    IF k = 0 THEN <<>>
    ELSE ResultsUpTo(k - 1) \o process_doc(k, pool_files[k])

PoolLoopDone == pool_next > Len(pool_files) /\ pool_files # <<>>

\* C21: with min(CPU count, number of files) workers running concurrently
\* and finishing in any order, each file's result is attributed to that
\* file, the merged record list is the concatenation of the per-file
\* results in file order, and a file whose processing raised is recorded
\* in error_files while the records of the other files are merged.
C21_MergeInFileOrder ==
    /\ Cardinality(RunningTasks) <= num_processes
    /\ \A k \in 1..Len(pool_log) :
           /\ pool_log[k].file = k
           /\ pool_log[k].cars = process_doc(k, pool_files[k])
    /\ PoolLoopDone =>
           /\ all_cars_data = ResultsUpTo(Len(pool_files))
           /\ \A i \in 1..Len(pool_files) :
                  pool_files[i].kind = "raises" =>
                      \E k \in 1..Len(error_files) : error_files[k] = i

\* three files on two workers, the second finished before the first, the
\* third raised, and the records of the first two are merged
C21_Witness ==
    /\ PoolLoopDone
    /\ pool_cpu = 2
    /\ Len(pool_files) = 3
    /\ pool_finished[1] = 2 /\ pool_finished[2] = 1
    /\ pool_files[3].kind = "raises"
    /\ pool_files[1].kind = "records" /\ pool_files[2].kind = "records"
    /\ error_files = << 3 >>
    /\ Len(all_cars_data) >= 2


\* ------------------------------------------------------------------------
\* Properties of the context of DocProcessor.process (Spec)
\* ------------------------------------------------------------------------

\* the parent of a node of the structure, 0 for the root
ParentOf(n) == nodes[n].parent

\* whenever they are set, the current sub-category node is a child of the
\* current category node, and the current numbered-section node is a child
\* of the current sub-category node, or of the category node when no
\* sub-category is set
HierarchyKept ==
    /\ (current_subsection # 0 /\ current_section # 0) =>
           ParentOf(current_subsection) = current_section
    /\ current_numbered_section # 0 =>
           IF current_subsection # 0
           THEN ParentOf(current_numbered_section) = current_subsection
           ELSE current_section # 0 =>
                    ParentOf(current_numbered_section) = current_section

\* the step of the scan over the block at pos
ScansBlock == pc = "scan" /\ pos <= Len(doc) /\ pos' = pos + 1

\* C22: a category-marker paragraph clears the current sub-category and the
\* current numbered section, a sub-category heading clears the current
\* numbered section, and at every point of the scan the current nodes, when
\* set, are parent and child as the hierarchy says.
C22_HierarchyInvariant ==
    /\ [] HierarchyKept
    /\ [][(ScansBlock /\ IsMarker(doc, pos)) =>
              (current_subsection' = 0 /\ current_numbered_section' = 0)]_vars
    /\ [][(ScansBlock /\ ~IsMarker(doc, pos) /\ IsHeading(doc, pos)) =>
              current_numbered_section' = 0]_vars

\* a marker, a sub-category heading and a numbered section were scanned:
\* the three current nodes are set, each the child of the one above
C22_Witness ==
    /\ pos = 4
    /\ IsMarker(doc, 1) /\ IsHeading(doc, 2) /\ ~IsMarker(doc, 2)
    /\ StartsNumbered(TextAt(doc, 3))
    /\ current_section # 0 /\ current_subsection # 0
    /\ current_numbered_section # 0
    /\ ParentOf(current_subsection) = current_section
    /\ ParentOf(current_numbered_section) = current_subsection


\* ------------------------------------------------------------------------
\* Properties of BatchExtractor.extract (SpecBx)
\* ------------------------------------------------------------------------

\* the scanned paragraphs whose text matches the total phrase
TotalParagraphs ==
    {i \in 1..search_limit :
        CountPatternMatches(strip(bx_paragraphs[i]))}

\* C23: the declared count is the count found in the first scanned
\* paragraph that matches the total phrase, for every count from 0 upward,
\* and once set it is never replaced by the count of a later paragraph.
C23_DeclaredCountSetOnce ==
    /\ []((bx_pc = "returned" /\ TotalParagraphs # {}) =>
             LET first == CHOOSE i \in TotalParagraphs :
                              \A j \in TotalParagraphs : i <= j
             IN  bx_declared_count =
                     extract_count_from_text(strip(bx_paragraphs[first])))
    /\ [][bx_declared_count # NoneV =>
              bx_declared_count' = bx_declared_count]_vars


\* ------------------------------------------------------------------------
\* Properties of DocProcessor.verify_batch_consistency of src/main.py
\* (SpecMv)
\* ------------------------------------------------------------------------

\* C24: verify_batch_consistency is a pure function of the batch number,
\* the declared count and the records: a call changes none of them, and
\* repeated calls on unchanged records return equal reports.
C24_VerifyIsPure ==
    /\ [][Len(mv_reports') > Len(mv_reports) =>
              /\ mv_batch_number' = mv_batch_number
              /\ mv_declared_count' = mv_declared_count
              /\ mv_cars' = mv_cars]_vars
    /\ [](\A i, j \in 1..Len(mv_reports) : mv_reports[i] = mv_reports[j])


\* ------------------------------------------------------------------------
\* Properties of DocProcessor._check_and_cleanup_cache (SpecCc)
\* ------------------------------------------------------------------------

\* the step is a call of _check_and_cleanup_cache
IsCheck == cc_checks' = cc_checks + 1

\* the check is made more than cleanup_interval after the recorded one
IntervalPassed == cc_now - cc_last_cache_cleanup > cc_cleanup_interval

C26_BatchNumberIsDecimal ==
    (f_pc = "returned" /\ f_ret # NoneV) => IsStr(f_ret) /\ isdigit(f_ret.v)


\* ------------------------------------------------------------------------
\* Properties of the counts of verify_batch_consistency (SpecVerify)
\* ------------------------------------------------------------------------

\* C27: for every record list, records without a table_id included, and
\* every non-empty batch number, actual_count is the number of records and
\* the sum of the table_counts values; so without a declared count the
\* status is internal_match, and internal_mismatch is never returned.
C27_CountsAgree ==
    (VerifyReturned /\ Truthy(v_batch_number)) =>
        /\ v_result.actual_count = Len(v_cars)
        /\ v_result.actual_count = SumCounts(v_result.table_counts)
        /\ v_declared_count = NoneV => v_result.status = "internal_match"
        /\ v_result.status # "internal_mismatch"

\* three records, one of them without a table_id and two of one table, no
\* declared count: internal_match with actual_count 3 under two keys
C27_Witness ==
    /\ VerifyReturned
    /\ Truthy(v_batch_number)
    /\ v_declared_count = NoneV
    /\ Len(v_cars) = 3
    /\ \E i \in 1..3 : ~HasKey(v_cars[i], K_table_id)
    /\ \E i, j \in 1..3 : i # j /\ v_cars[i] = v_cars[j]
    /\ v_result.status = "internal_match"
    /\ v_result.actual_count = 3
    /\ Len(v_result.table_counts) = 2


\* C28: after process returns, every record has batch equal to the batch
\* number of the document, the records of tables that stand before the
\* paragraph that establishes the batch number included.
C28_BatchOfEveryRecord ==
    (pc = "done" /\ Truthy(batch_number)) =>
        \A i \in 1..Len(cars) :
            /\ HasKey(cars[i], K_batch)
            /\ cars[i][K_batch] = batch_number


\* ------------------------------------------------------------------------
\* Properties of a repeated DocProcessor.process (SpecTwice)
\* ------------------------------------------------------------------------

\* C29: when a call of process made after the first one returns, the records
\* it returns are the records the first call returned, so that no accepted
\* table row appears in the result more than once
C29_SecondCallSameRecords ==
    (pc = "done" /\ repeat_calls >= 1) => cars = first_result


\* ------------------------------------------------------------------------
\* Properties of the energytype of the records (Spec)
\* ------------------------------------------------------------------------

\* the records whose category is c
RecordsOfCategory(c) ==
    {i \in 1..Len(cars) : HasKey(cars[i], K_category) /\ cars[i][K_category] = c}

\* no table of the document has a column named category, so that the
\* category of a record is the category its table was scanned under
NoCategoryColumn ==
    \A p \in 1..Len(doc) :
        (doc[p].kind = "tbl" /\ Len(doc[p].rows) > 0) =>
            \A c \in 1..Len(doc[p].rows[1]) : doc[p].rows[1][c] # K_category

\* C30: a record has energytype 2 exactly when its category is the
\* energy-saving one and energytype 1 exactly when its category is the
\* new-energy one, and the statistics count as new-energy only the records
\* of the new-energy category: the records of a table scanned before any
\* category marker are not among them
C30_EnergyTypeOfCategory ==
    NoCategoryColumn =>
        /\ \A i \in 1..Len(cars) :
               /\ energytype_of(cars[i]) = IntV(2)
                      <=> i \in RecordsOfCategory(StrV(C_energy_saving))
               /\ energytype_of(cars[i]) = IntV(1)
                      <=> i \in RecordsOfCategory(StrV(C_new_energy))
        /\ new_energy_count(cars)
               = Cardinality(RecordsOfCategory(StrV(C_new_energy)))

====
